---- MODULE Spec2Model ----
(***************************************************************************)
(* Model of the fhevm-sdk core: the network registry and client creation  *)
(* (core/client.ts), encryption type dispatch (core/encryption.ts), permit *)
(* authority and decryption dispatch (core/decryption.ts), the validation  *)
(* layer (utils/validation.ts and the showcase's lib/utils/validation.ts), *)
(* the React permit hook and the security utilities                        *)
(* (adapters/react/index.ts).                                              *)
(***************************************************************************)
EXTENDS Integers, Sequences, FiniteSets, TLC

VARIABLES
    encFn,        \* encryption: name of the exported function that was called
    encValue,     \* encryption: the value it was called with
    encPath,      \* encryption: the typed function that handled the value
    instCalls,    \* encryption: methods invoked on the cryptographic instance
    encState,     \* encryption: "idle" | "pending" | "resolved" | "rejected" | "instanceFailed"
    fetchLog,     \* gateway: the requests issued through fetch, in order
    decOp,        \* decryption: "none" | "decrypt" | "decryptBatch"
    decPermit,    \* decryption: the permit the call was given
    tasks,        \* decryption: one record per decrypt() promise of the call
    answers,      \* decryption: what fetch settled with for each task
    reordered,    \* decryption: some response arrived before that of an earlier handle
    batchState,   \* decryptBatch: state of the Promise.all promise; for a single
                  \* decrypt it stays "idle"
    batchResult,  \* decryptBatch: the array Promise.all resolved with
    boolOut,      \* decryptBool: state of the returned promise and its boolean
    now,          \* Date.now(), in milliseconds
    pvState,      \* isPermitValid: "idle" | "pending" | "done"
    pvPermit,     \* isPermitValid: the permit it was given
    pvCalledAt,   \* isPermitValid: the time of the call
    pvSent,       \* isPermitValid: number of gateway requests the call issued
    pvResult,     \* isPermitValid: the boolean it returned
    pvAnswer,     \* isPermitValid: what fetch settled with
    rvState,      \* revokePermit: "idle" | "pending" | "resolved" | "rejected"
    rvPermit,     \* revokePermit: the permit it was given
    rvStatus,     \* revokePermit: what the gateway answered
    gwRevoked,    \* gateway: the permits it has revoked
    prPc,         \* requestPermit: "idle" | "getSigner" | "signTypedData" | "done"
    prPair,       \* requestPermit: the (contract, user) pair of the request
    prSigner,     \* requestPermit: what the provider and the account answered
    prOutcome,    \* requestPermit: how the returned promise settled
    isRequestingPermit,  \* useDecrypt state
    hookError,    \* useDecrypt state: error
    pairState,    \* per (contract, user): "Unrequested" | "Pending" | "Granted"
    rlMade,       \* RateLimiter: constructed
    maxRequests,  \* RateLimiter.maxRequests
    windowMs,     \* RateLimiter.windowMs
    requests,     \* RateLimiter.requests
    accepted,     \* RateLimiter: times of the requests accepted since the last reset
    callers,      \* RateLimiter: for each entry of requests, the identifier the
                  \* check was made for
    rlCheck,      \* RateLimiter: the last isAllowed() call: its time, the accepted
                  \* times before it, and its result
    cmpA,         \* secureCompare: first argument
    cmpB,         \* secureCompare: second argument
    cmpOut,       \* secureCompare: the call's result and its loop iterations
    NETWORKS,     \* client: the exported registry of network configurations
    customNetwork, \* client: the NetworkConfig object a caller passes as config.network
    fhevmInitialized,  \* client: module flag set by initializeFhevm
    ccPc,         \* createFhevmClient: "idle" | "initFhevm" | "getSigner" |
                  \* "fetchPublicKey" | "createInstance" | "resolved" | "rejected"
    ccConfig,     \* createFhevmClient: the FhevmClientConfig of the call
    ccFetched,    \* createFhevmClient: the gateway URL whose /publicKey was fetched
    ccAnswer,     \* createFhevmClient: what that fetch settled with
    ccClient,     \* createFhevmClient: the network, address and key of the client returned
    ccCause,      \* createFhevmClient: why the returned promise rejected
    hasLocalStorage,  \* SecureStorage: typeof localStorage !== 'undefined'
    localStorage, \* SecureStorage: the underlying store, one item or none per key
    ssPrefix,     \* SecureStorage: the prefix of each constructed instance
    ssLast,       \* SecureStorage: the last call, its result and the store before it
    vlFn,         \* validation: name of the check that was called
    vlArgs,       \* validation: the arguments it was called with
    vlAt,         \* validation: the time of the call
    vlOutcome,    \* validation: what the check returned, or that it threw
    wfPc,         \* workflow: "start" | "encrypting" | "encrypted" | "submitted" |
                  \* "decrypting" | "done" | "failed"
    wfValue,      \* workflow: the value given to encrypt
    wfInput,      \* workflow: the EncryptedInput encrypt resolved with
    wfStore,      \* workflow: the plaintext the chain holds under each handle
    wfHandle,     \* workflow: the handle the contract assigned
    wfPermit,     \* workflow: the permit given to decrypt
    wfTask,       \* workflow: the decrypt() promise
    wfAnswer,     \* workflow: what the gateway answered
    publicKey,    \* FHEClient.publicKey
    fcLog,        \* FHEClient: the URLs fetched so far
    fcCall,       \* FHEClient: the last call: whether initialize() had succeeded, whether it fetched, how it ended
    owner,        \* contract: owner
    violationCounter, \* contract: violationCounter
    violations,   \* contract: violations, the fields that are not ciphertexts
    payments,     \* contract: payments
    reporterViolations, \* contract: reporterViolations
    violationBaseFines, \* contract: violationBaseFines, in ether
    paused,       \* contract: paused
    lastTx,       \* contract: the last transaction: its function, paused before it, whether it reverted
    initCalls,    \* client: the initializeFhevm() calls made, each with how far it got
    props,        \* FhevmProvider: the current network/provider/gatewayUrl/aclAddress props
    rendered,     \* FhevmProvider: in the tree
    effects,      \* FhevmProvider: the runs of the effect: their config, `mounted` and createFhevmClient promise
    ctxClient,    \* FhevmProvider: state client, by the config it was created for
    isInitializing, \* FhevmProvider: state isInitializing
    ctxError,     \* FhevmProvider: state error is set
    isEncrypting, \* useEncrypt: state isEncrypting
    encryptError, \* useEncrypt: state error is set
    hookCalls     \* useEncrypt: the calls made through the hook, each with how it ended

encVars == <<encFn, encValue, encPath, instCalls, encState>>

decVars == <<fetchLog, decOp, decPermit, tasks, answers, reordered, batchState, batchResult,
             boolOut>>

pvVars == <<now, pvState, pvPermit, pvCalledAt, pvSent, pvResult, pvAnswer>>

rvVars == <<rvState, rvPermit, rvStatus, gwRevoked>>

prVars == <<prPc, prPair, prSigner, prOutcome, isRequestingPermit, hookError, pairState>>

rlVars == <<rlMade, maxRequests, windowMs, requests, accepted, callers, rlCheck>>

cmpVars == <<cmpA, cmpB, cmpOut>>

vlVars == <<vlFn, vlArgs, vlAt, vlOutcome>>

wfVars == <<wfPc, wfValue, wfInput, wfStore, wfHandle, wfPermit, wfTask, wfAnswer>>

ssVars == <<hasLocalStorage, localStorage, ssPrefix, ssLast>>

ccVars == <<NETWORKS, customNetwork, fhevmInitialized, ccPc, ccConfig, ccFetched,
            ccAnswer, ccClient, ccCause>>

fcVars == <<publicKey, fcLog, fcCall>>

avVars == <<owner, violationCounter, violations, payments, reporterViolations, violationBaseFines, paused, lastTx>>

inVars == <<initCalls>>

fpVars == <<props, rendered, effects, ctxClient, isInitializing, ctxError>>

ueVars == <<isEncrypting, encryptError, hookCalls>>

vars == <<encFn, encValue, encPath, instCalls, encState,
          fetchLog, decOp, decPermit, tasks, answers, reordered, batchState, batchResult,
          boolOut,
          now, pvState, pvPermit, pvCalledAt, pvSent, pvResult, pvAnswer,
          rvState, rvPermit, rvStatus, gwRevoked,
          prPc, prPair, prSigner, prOutcome, isRequestingPermit, hookError, pairState,
          rlMade, maxRequests, windowMs, requests, accepted, callers, rlCheck,
          cmpA, cmpB, cmpOut,
          NETWORKS, customNetwork, fhevmInitialized, ccPc, ccConfig, ccFetched,
          ccAnswer, ccClient, ccCause,
          hasLocalStorage, localStorage, ssPrefix, ssLast,
          vlFn, vlArgs, vlAt, vlOutcome,
          wfPc, wfValue, wfInput, wfStore, wfHandle, wfPermit, wfTask, wfAnswer,
          publicKey, fcLog, fcCall,
          owner, violationCounter, violations, payments, reporterViolations, violationBaseFines, paused, lastTx,
          initCalls,
          props, rendered, effects, ctxClient, isInitializing, ctxError,
          isEncrypting, encryptError, hookCalls>>

----------------------------------------------------------------------------
(* Bounds *)

\* numbers are sampled at distance at most MaxOff from 0, 2^8, 2^16, 2^32, 2^64
MaxOff == 2

\* handles known to the gateway are 1..MaxHandle
MaxHandle == 3

\* longest array of handles given to decryptBatch
MaxBatch == 2

\* the clock runs from 0 to MaxTime
MaxTime == 3

\* most requests one behaviour sends to the permit endpoints of the gateway
MaxRequests == 2

\* a RateLimiter is constructed with maxRequests in 1..MaxM
MaxM == 2

\* a RateLimiter is constructed with windowMs in 1..MaxW
MaxW == 3

\* longest string given to secureCompare
MaxLen == 3

----------------------------------------------------------------------------
(* JavaScript values.  A number or bigint is a sign and a magnitude of five *)
(* base-65536 limbs, most significant first, so that 2^32 and 2^64 keep     *)
(* their exact value.                                                       *)

Limb == 65536

Zero5 == <<0, 0, 0, 0, 0>>

RECURSIVE IncMag(_, _)
\* magnitude + 1, carrying from limb i upwards
IncMag(m, i) ==
    IF i = 0 THEN m
    ELSE IF m[i] + 1 < Limb THEN [m EXCEPT ![i] = m[i] + 1]
         ELSE IncMag([m EXCEPT ![i] = 0], i - 1)

RECURSIVE DecMag(_, _)
\* magnitude - 1 (m > 0), borrowing from limb i upwards
DecMag(m, i) ==
    IF i = 0 THEN m
    ELSE IF m[i] > 0 THEN [m EXCEPT ![i] = m[i] - 1]
         ELSE DecMag([m EXCEPT ![i] = Limb - 1], i - 1)

MagLt(a, b) ==
    \E i \in 1..5 : a[i] < b[i] /\ \A j \in 1..(i - 1) : a[j] = b[j]

JsValue(kind, nan, neg, mag, bool, str) ==
    [kind |-> kind, nan |-> nan, neg |-> neg, mag |-> mag, bool |-> bool, str |-> str]

MkInt(kind, neg, mag) == JsValue(kind, FALSE, neg /\ mag # Zero5, mag, FALSE, <<>>)

Succ(x) ==
    IF x.neg THEN MkInt(x.kind, TRUE, DecMag(x.mag, 5))
    ELSE MkInt(x.kind, FALSE, IncMag(x.mag, 5))

Pred(x) ==
    IF x.neg \/ x.mag = Zero5 THEN MkInt(x.kind, TRUE, IncMag(x.mag, 5))
    ELSE MkInt(x.kind, FALSE, DecMag(x.mag, 5))

RECURSIVE Shift(_, _)
\* x + d for a small integer d
Shift(x, d) ==
    IF d = 0 THEN x
    ELSE IF d > 0 THEN Shift(Succ(x), d - 1)
    ELSE Shift(Pred(x), d + 1)

\* the integer literals of the source
Lit0(kind)     == MkInt(kind, FALSE, Zero5)
Lit255(kind)   == MkInt(kind, FALSE, <<0, 0, 0, 0, 255>>)
Lit65535(kind) == MkInt(kind, FALSE, <<0, 0, 0, 0, 65535>>)
LitU32Max(kind) == MkInt(kind, FALSE, <<0, 0, 0, 65535, 65535>>)
LitU64Max(kind) == MkInt(kind, FALSE, <<0, 65535, 65535, 65535, 65535>>)

\* JavaScript relational operators on numbers and bigints: every comparison
\* with NaN is false
JsLt(x, y) ==
    /\ ~x.nan /\ ~y.nan
    /\ \/ x.neg /\ ~y.neg
       \/ ~x.neg /\ ~y.neg /\ MagLt(x.mag, y.mag)
       \/ x.neg /\ y.neg /\ MagLt(y.mag, x.mag)

JsGt(x, y) == JsLt(y, x)

JsLe(x, y) == ~x.nan /\ ~y.nan /\ ~JsLt(y, x)

JsGe(x, y) == JsLe(y, x)

----------------------------------------------------------------------------
(* Input values *)

Anchors(kind) ==
    { Lit0(kind),
      Succ(Lit255(kind)), Succ(Lit65535(kind)),
      Succ(LitU32Max(kind)), Succ(LitU64Max(kind)) }

IntSamples(kind) ==
    { Shift(a, d) : a \in Anchors(kind), d \in (0 - MaxOff)..MaxOff }
    \cup { MkInt(kind, FALSE, <<0, 0, 0, 0, n>>) : n \in {42, 250, 1000} }

NaN == JsValue("number", TRUE, FALSE, Zero5, FALSE, <<>>)

Numbers == IntSamples("number") \cup {NaN}

BigInts == IntSamples("bigint")

Booleans == { JsValue("boolean", FALSE, FALSE, Zero5, b, <<>>) : b \in BOOLEAN }

Rep(c, n) == [i \in 1..n |-> c]

Str(s) == JsValue("string", FALSE, FALSE, Zero5, FALSE, s)

Strings ==
    { Str(<<"0", "x">> \o Rep("a", 40)),     \* a well-formed address
      Str(<<"0", "x">> \o Rep("F", 40)),
      Str(<<"0", "x">> \o Rep("g", 40)),     \* 42 characters, not hexadecimal
      Str(<<"0", "x">> \o Rep("a", 39)),
      Str(<<"0", "x">> \o Rep("a", 41)),
      Str(<<"0", "X">> \o Rep("a", 40)),
      Str(Rep("a", 42)),
      Str(<<"0", "x">>),
      Str(<<"4", "2">>),
      Str(<<>>) }

startsWith0x(s) == Len(s) >= 2 /\ s[1] = "0" /\ s[2] = "x"

\* the character class [a-fA-F0-9]
HexDigits ==
    {"0", "1", "2", "3", "4", "5", "6", "7", "8", "9",
     "a", "b", "c", "d", "e", "f", "A", "B", "C", "D", "E", "F"}

\* isValidAddress: /^0x[a-fA-F0-9]{40}$/.test(address)
isValidAddress(address) ==
    /\ Len(address) = 42
    /\ address[1] = "0" /\ address[2] = "x"
    /\ \A i \in 3..42 : address[i] \in HexDigits

----------------------------------------------------------------------------
(* core/encryption.ts.  Each function is evaluated up to its await of       *)
(* input.encrypt(): threw says whether it threw before that, calls lists    *)
(* the methods it invoked on client.instance, path names the typed function *)
(* that handled the value.                                                  *)

Threw(path) == [threw |-> TRUE, calls |-> <<>>, path |-> path]

Encrypted(path, add) ==
    [threw |-> FALSE, calls |-> <<"createEncryptedInput", add, "encrypt">>, path |-> path]

\* encryptUint8 with the upper bound off by one
encryptUint8_OffByOne(value) ==
    IF JsLt(value, Lit0(value.kind)) \/ JsGt(value, Succ(Lit255(value.kind)))
    THEN Threw("encryptUint8")
    ELSE Encrypted("encryptUint8", "add8")

encryptUint8(value) ==
    IF JsLt(value, Lit0(value.kind)) \/ JsGt(value, Lit255(value.kind))
    THEN Threw("encryptUint8")
    ELSE Encrypted("encryptUint8", "add8")

\* encryptUint16 creating the encrypted input before it validates the value
encryptUint16_CreateFirst(value) ==
    IF JsLt(value, Lit0(value.kind)) \/ JsGt(value, Lit65535(value.kind))
    THEN [threw |-> TRUE, calls |-> <<"createEncryptedInput">>, path |-> "encryptUint16"]
    ELSE Encrypted("encryptUint16", "add16")

encryptUint16(value) ==
    IF JsLt(value, Lit0(value.kind)) \/ JsGt(value, Lit65535(value.kind))
    THEN Threw("encryptUint16")
    ELSE Encrypted("encryptUint16", "add16")

encryptUint32(value) ==
    IF JsLt(value, Lit0(value.kind)) \/ JsGt(value, LitU32Max(value.kind))
    THEN Threw("encryptUint32")
    ELSE Encrypted("encryptUint32", "add32")

encryptUint64(value) ==
    IF JsLt(value, Lit0(value.kind)) \/ JsGt(value, LitU64Max(value.kind))
    THEN Threw("encryptUint64")
    ELSE Encrypted("encryptUint64", "add64")

\* encryptBool adding the boolean as an 8-bit integer
encryptBool_Add8(value) == Encrypted("encryptBool", "add8")

encryptBool(value) == Encrypted("encryptBool", "addBool")

encryptAddress(address) ==
    IF ~startsWith0x(address.str) \/ Len(address.str) # 42
    THEN Threw("encryptAddress")
    ELSE Encrypted("encryptAddress", "addAddress")

\* encrypt silently widening a plain number above the 32-bit ceiling to 64 bits
encrypt_Widen(value) ==
    IF value.kind = "boolean" THEN encryptBool(value)
    ELSE IF value.kind = "string" /\ startsWith0x(value.str) THEN encryptAddress(value)
    ELSE IF value.kind = "bigint" THEN encryptUint64(value)
    ELSE IF value.kind = "number" THEN
        IF JsGe(value, Lit0("number")) /\ JsLe(value, Lit255("number"))
        THEN encryptUint8(value)
        ELSE IF JsGe(value, Lit0("number")) /\ JsLe(value, Lit65535("number"))
        THEN encryptUint16(value)
        ELSE IF JsGe(value, Lit0("number")) /\ JsLe(value, LitU32Max("number"))
        THEN encryptUint32(value)
        ELSE encryptUint64(value)
    ELSE Threw("encrypt")

encrypt(value) ==
    IF value.kind = "boolean" THEN encryptBool(value)
    ELSE IF value.kind = "string" /\ startsWith0x(value.str) THEN encryptAddress(value)
    ELSE IF value.kind = "bigint" THEN encryptUint64(value)
    ELSE IF value.kind = "number" THEN
        IF JsGe(value, Lit0("number")) /\ JsLe(value, Lit255("number"))
        THEN encryptUint8(value)
        ELSE IF JsGe(value, Lit0("number")) /\ JsLe(value, Lit65535("number"))
        THEN encryptUint16(value)
        ELSE IF JsGe(value, Lit0("number")) /\ JsLe(value, LitU32Max("number"))
        THEN encryptUint32(value)
        ELSE Threw("encrypt")
    ELSE Threw("encrypt")

NoValue == JsValue("undefined", FALSE, FALSE, Zero5, FALSE, <<>>)

InitEnc ==
    /\ encFn = "none"
    /\ encValue = NoValue
    /\ encPath = "none"
    /\ instCalls = <<>>
    /\ encState = "idle"

\* a call of an exported encryption function, run up to its first await
Invoke(fn, value, r) ==
    /\ encState # "pending"
    /\ encFn' = fn
    /\ encValue' = value
    /\ encPath' = r.path
    /\ instCalls' = r.calls
    /\ encState' = IF r.threw THEN "rejected" ELSE "pending"
    /\ UNCHANGED <<decVars, pvVars, rvVars, prVars, rlVars, cmpVars, ccVars, ssVars, vlVars, wfVars, fcVars, avVars, inVars, fpVars, ueVars>>

CallEncryptUint8 == \E v \in Numbers : Invoke("encryptUint8", v, encryptUint8(v))

CallEncryptUint16 == \E v \in Numbers : Invoke("encryptUint16", v, encryptUint16(v))

CallEncryptUint32 == \E v \in Numbers : Invoke("encryptUint32", v, encryptUint32(v))

CallEncryptUint64 == \E v \in BigInts : Invoke("encryptUint64", v, encryptUint64(v))

CallEncryptBool == \E v \in Booleans : Invoke("encryptBool", v, encryptBool(v))

CallEncryptAddress == \E v \in Strings : Invoke("encryptAddress", v, encryptAddress(v))

CallEncrypt ==
    \E v \in Numbers \cup BigInts \cup Booleans \cup Strings : Invoke("encrypt", v, encrypt(v))

\* input.encrypt() of the cryptographic instance settles
InstanceEncryptResolves ==
    /\ encState = "pending"
    /\ encState' = "resolved"
    /\ UNCHANGED <<encFn, encValue, encPath, instCalls>>
    /\ UNCHANGED <<decVars, pvVars, rvVars, prVars, rlVars, cmpVars, ccVars, ssVars, vlVars, wfVars, fcVars, avVars, inVars, fpVars, ueVars>>

InstanceEncryptRejects ==
    /\ encState = "pending"
    /\ encState' = "instanceFailed"
    /\ UNCHANGED <<encFn, encValue, encPath, instCalls>>
    /\ UNCHANGED <<decVars, pvVars, rvVars, prVars, rlVars, cmpVars, ccVars, ssVars, vlVars, wfVars, fcVars, avVars, inVars, fpVars, ueVars>>

NextEnc ==
    \/ CallEncryptUint8
    \/ CallEncryptUint16
    \/ CallEncryptUint32
    \/ CallEncryptUint64
    \/ CallEncryptBool
    \/ CallEncryptAddress
    \/ CallEncrypt
    \/ InstanceEncryptResolves
    \/ InstanceEncryptRejects

----------------------------------------------------------------------------
(* Permits and the gateway *)

Undefined == "undefined"

\* a string field of a permit: missing, empty or non-empty
SigValues == {Undefined, "", "0xsig"}

KeyValues == {Undefined, "", "0xpk"}

Permits ==
    [signature : SigValues, publicKey : KeyValues]

NoPermit == [signature |-> Undefined, publicKey |-> Undefined]

Handles == 1..MaxHandle

\* the plaintext the gateway holds for a handle
Plain(h) == (h - 1) * 21

Digits == <<"0", "1", "2", "3", "4", "5", "6", "7", "8", "9">>

RECURSIVE toString(_)
\* bigint.toString(): the decimal digits of n >= 0
toString(n) ==
    IF n < 10 THEN <<Digits[n + 1]>>
    ELSE toString(n \div 10) \o <<Digits[(n % 10) + 1]>>

DigitValue(c) == CHOOSE d \in 0..9 : Digits[d + 1] = c

IsDigit(c) == \E d \in 0..9 : Digits[d + 1] = c

RECURSIVE ParseDigits(_, _)
ParseDigits(str, acc) ==
    IF str = <<>> THEN acc
    ELSE ParseDigits(Tail(str), acc * 10 + DigitValue(Head(str)))

\* BigInt(x) throws for undefined and for a string that is not an integer
\* literal; the empty string converts to 0n
BigIntThrows(x) == ~x.defined \/ \E i \in 1..Len(x.str) : ~IsDigit(x.str[i])

\* BigInt keeping only the low 8 bits of the parsed integer
BigInt_Byte(x) == ParseDigits(x.str, 0) % 256

BigInt(x) == ParseDigits(x.str, 0)

\* a field of a JSON body: absent, or a string
Absent == [defined |-> FALSE, str |-> <<>>]

Text(str) == [defined |-> TRUE, str |-> str]

\* what fetch() of POST {gatewayUrl}/decrypt can produce for a handle:
\* a transport failure, a non-success status, or a success whose body carries
\* the plaintext as a numeric string, something unparsable, or no value
DecryptResponses(h) ==
    { [kind |-> "networkError", ok |-> FALSE, value |-> Absent],
      [kind |-> "http", ok |-> FALSE, value |-> Absent],
      [kind |-> "http", ok |-> TRUE, value |-> Text(toString(Plain(h)))],
      [kind |-> "http", ok |-> TRUE, value |-> Text(<<"o", "k">>)],
      [kind |-> "http", ok |-> TRUE, value |-> Absent] }

\* utils/validation.ts validateDecryptionPermit: "ok", or the message it throws
validateDecryptionPermit(permit) ==
    IF permit.signature = Undefined \/ permit.signature = ""
    THEN "Permit signature is required"
    ELSE IF permit.publicKey = Undefined \/ permit.publicKey = ""
    THEN "Permit public key is required"
    ELSE "ok"

----------------------------------------------------------------------------
(* core/decryption.ts: decrypt and decryptBatch *)

DecryptRequest(handle, permit) ==
    [endpoint |-> "/decrypt", handle |-> toString(handle),
     signature |-> permit.signature, publicKey |-> permit.publicKey]

\* decrypt() up to its await of fetch: the request is issued unconditionally
decryptStart(handle, permit) ==
    [request |-> <<DecryptRequest(handle, permit)>>,
     task |-> [handle |-> handle, state |-> "pending", value |-> 0, cause |-> "none"]]

\* decrypt() with a catch block that resolves with 0n after a transport failure
decryptSettle_Swallow(task, r) ==
    IF r.kind = "networkError"
    THEN [task EXCEPT !.state = "fulfilled", !.value = 0]
    ELSE IF ~r.ok
    THEN [task EXCEPT !.state = "rejected", !.cause = "status"]
    ELSE IF BigIntThrows(r.value)
    THEN [task EXCEPT !.state = "rejected", !.cause = "parse"]
    ELSE [task EXCEPT !.state = "fulfilled", !.value = BigInt(r.value)]

\* the rest of decrypt() once fetch has settled with response r: whatever
\* the try block throws is caught and thrown again as
\* Error(`Failed to decrypt value: ${error}`), cause naming what was caught
decryptSettle(task, r) ==
    IF r.kind = "networkError"
    THEN [task EXCEPT !.state = "rejected", !.cause = "transport"]
    ELSE IF ~r.ok
    THEN [task EXCEPT !.state = "rejected", !.cause = "status"]
    ELSE IF BigIntThrows(r.value)
    THEN [task EXCEPT !.state = "rejected", !.cause = "parse"]
    ELSE [task EXCEPT !.state = "fulfilled", !.value = BigInt(r.value)]

\* Promise.all collecting the values in the order the promises fulfil
PromiseAll_ArrivalOrder(state, result, ts, settled) ==
    IF state # "pending" THEN [state |-> state, result |-> result]
    ELSE IF \E i \in 1..Len(ts) : ts[i].state = "rejected"
    THEN [state |-> "rejected", result |-> <<>>]
    ELSE LET got == IF settled = 0 THEN result ELSE Append(result, ts[settled].value) IN
         IF \A i \in 1..Len(ts) : ts[i].state = "fulfilled"
         THEN [state |-> "resolved", result |-> got]
         ELSE [state |-> "pending", result |-> got]

\* Promise.all over the decrypt() promises after one of them settled:
\* the first rejection rejects it, the last fulfilment resolves it with the
\* values in the order of the promises
PromiseAll(state, result, ts, settled) ==
    IF state # "pending" THEN [state |-> state, result |-> result]
    ELSE IF \E i \in 1..Len(ts) : ts[i].state = "rejected"
    THEN [state |-> "rejected", result |-> <<>>]
    ELSE IF \A i \in 1..Len(ts) : ts[i].state = "fulfilled"
    THEN [state |-> "resolved", result |-> [i \in 1..Len(ts) |-> ts[i].value]]
    ELSE [state |-> "pending", result |-> <<>>]

RECURSIVE MapDecrypt(_, _)
\* handles.map(handle => decrypt(client, handle, permit)): every request is
\* issued before anything is awaited
MapDecrypt(handles, permit) ==
    IF handles = <<>> THEN [request |-> <<>>, tasks |-> <<>>]
    ELSE LET d == decryptStart(Head(handles), permit)
             rest == MapDecrypt(Tail(handles), permit)
         IN [request |-> d.request \o rest.request, tasks |-> <<d.task>> \o rest.tasks]

NoBool == [state |-> "idle", value |-> FALSE]

\* decryptBool taking only 1n for true
decryptBool_OnlyOne(value) == value = 1

\* decryptBool: value !== 0n
decryptBool(value) == value # 0

\* the rest of decryptBool() once its decrypt() promise has settled
decryptBoolSettle(task) ==
    IF task.state = "fulfilled"
    THEN [state |-> "resolved", value |-> decryptBool(task.value)]
    ELSE [state |-> "rejected", value |-> FALSE]

\* no response yet
NoAnswer == [kind |-> "none", ok |-> FALSE, value |-> Absent]

InitDec ==
    /\ fetchLog = <<>>
    /\ decOp = "none"
    /\ decPermit = NoPermit
    /\ tasks = <<>>
    /\ answers = <<>>
    /\ reordered = FALSE
    /\ batchState = "idle"
    /\ batchResult = <<>>
    /\ boolOut = NoBool

CallDecrypt ==
    \E handle \in Handles, permit \in Permits :
        LET d == decryptStart(handle, permit) IN
        /\ decOp = "none"
        /\ decOp' = "decrypt"
        /\ decPermit' = permit
        /\ fetchLog' = d.request
        /\ tasks' = <<d.task>>
        /\ answers' = <<NoAnswer>>
        /\ reordered' = FALSE
        /\ batchState' = "idle"
        /\ batchResult' = <<>>
        /\ boolOut' = NoBool
        /\ UNCHANGED <<encVars, pvVars, rvVars, prVars, rlVars, cmpVars, ccVars, ssVars, vlVars, wfVars, fcVars, avVars, inVars, fpVars, ueVars>>

CallDecryptBool ==
    \E handle \in Handles, permit \in Permits :
        LET d == decryptStart(handle, permit) IN
        /\ decOp = "none"
        /\ decOp' = "decryptBool"
        /\ decPermit' = permit
        /\ fetchLog' = d.request
        /\ tasks' = <<d.task>>
        /\ answers' = <<NoAnswer>>
        /\ reordered' = FALSE
        /\ batchState' = "idle"
        /\ batchResult' = <<>>
        /\ boolOut' = [NoBool EXCEPT !.state = "pending"]
        /\ UNCHANGED <<encVars, pvVars, rvVars, prVars, rlVars, cmpVars, ccVars, ssVars, vlVars, wfVars, fcVars, avVars, inVars, fpVars, ueVars>>

HandleArrays == UNION { [1..n -> Handles] : n \in 0..MaxBatch }

\* decryptBatch as a loop that awaits each decrypt() before starting the
\* next: only the first request is issued by the time the call first awaits
CallDecryptBatch_Sequential ==
    \E handles \in HandleArrays, permit \in Permits :
        LET m == MapDecrypt(handles, permit)
            all == PromiseAll("pending", <<>>, m.tasks, 0) IN
        /\ decOp = "none"
        /\ decOp' = "decryptBatch"
        /\ decPermit' = permit
        /\ fetchLog' = IF m.request = <<>> THEN <<>> ELSE <<Head(m.request)>>
        /\ tasks' = m.tasks
        /\ answers' = [i \in 1..Len(m.tasks) |-> NoAnswer]
        /\ reordered' = FALSE
        /\ batchState' = all.state
        /\ batchResult' = all.result
        /\ boolOut' = NoBool
        /\ UNCHANGED <<encVars, pvVars, rvVars, prVars, rlVars, cmpVars, ccVars, ssVars, vlVars, wfVars, fcVars, avVars, inVars, fpVars, ueVars>>

CallDecryptBatch ==
    \E handles \in HandleArrays, permit \in Permits :
        LET m == MapDecrypt(handles, permit)
            all == PromiseAll("pending", <<>>, m.tasks, 0) IN
        /\ decOp = "none"
        /\ decOp' = "decryptBatch"
        /\ decPermit' = permit
        /\ fetchLog' = m.request
        /\ tasks' = m.tasks
        /\ answers' = [i \in 1..Len(m.tasks) |-> NoAnswer]
        /\ reordered' = FALSE
        /\ batchState' = all.state
        /\ batchResult' = all.result
        /\ boolOut' = NoBool
        /\ UNCHANGED <<encVars, pvVars, rvVars, prVars, rlVars, cmpVars, ccVars, ssVars, vlVars, wfVars, fcVars, avVars, inVars, fpVars, ueVars>>

\* the gateway (or the transport) answers the request of task i
GatewayDecryptResponds ==
    \E i \in 1..Len(tasks) :
        /\ tasks[i].state = "pending"
        /\ \E r \in DecryptResponses(tasks[i].handle) :
            LET ts == [tasks EXCEPT ![i] = decryptSettle(tasks[i], r)]
                all == PromiseAll(batchState, batchResult, ts, i) IN
            /\ tasks' = ts
            /\ answers' = [answers EXCEPT ![i] = r]
            /\ reordered' = (reordered \/ \E j \in 1..(i - 1) : tasks[j].state = "pending")
            /\ batchState' = all.state
            /\ batchResult' = all.result
            /\ boolOut' = IF decOp = "decryptBool" THEN decryptBoolSettle(ts[i]) ELSE boolOut
        /\ UNCHANGED <<fetchLog, decOp, decPermit>>
        /\ UNCHANGED <<encVars, pvVars, rvVars, prVars, rlVars, cmpVars, ccVars, ssVars, vlVars, wfVars, fcVars, avVars, inVars, fpVars, ueVars>>

NextDec ==
    \/ CallDecrypt
    \/ CallDecryptBool
    \/ CallDecryptBatch
    \/ GatewayDecryptResponds

----------------------------------------------------------------------------
(* core/decryption.ts: isPermitValid *)

NoExpiry == 0 - 1

\* a permit as a caller may hold it: the two fields of DecryptionPermit and
\* an optional expiresAt timestamp
TimedPermits ==
    [signature : SigValues, publicKey : KeyValues, expiresAt : {NoExpiry} \cup 0..MaxTime]

NoTimedPermit == [signature |-> Undefined, publicKey |-> Undefined, expiresAt |-> NoExpiry]

PermitRequest(endpoint, permit) ==
    [endpoint |-> endpoint, handle |-> <<>>,
     signature |-> permit.signature, publicKey |-> permit.publicKey]

\* what fetch() of POST {gatewayUrl}/permit/validate can produce
ValidateResponses ==
    { [kind |-> "networkError", ok |-> FALSE, valid |-> FALSE],
      [kind |-> "http", ok |-> FALSE, valid |-> FALSE],
      [kind |-> "http", ok |-> TRUE, valid |-> TRUE],
      [kind |-> "http", ok |-> TRUE, valid |-> FALSE] }

\* isPermitValid() up to its await of fetch: the requests it issues
isPermitValidStart(permit) == <<PermitRequest("/permit/validate", permit)>>

\* the rest of isPermitValid() once fetch has settled with response r: the
\* catch block logs the failure and returns false, so the promise always
\* resolves
isPermitValidSettle(r) ==
    IF r.kind = "networkError" THEN FALSE
    ELSE IF ~r.ok THEN FALSE
    ELSE r.valid = TRUE

NoValidateAnswer == [kind |-> "none", ok |-> FALSE, valid |-> FALSE]

InitPv ==
    /\ now = 0
    /\ pvState = "idle"
    /\ pvPermit = NoTimedPermit
    /\ pvCalledAt = 0
    /\ pvSent = 0
    /\ pvResult = FALSE
    /\ pvAnswer = NoValidateAnswer

Tick ==
    /\ now < MaxTime
    /\ now' = now + 1
    /\ UNCHANGED <<pvState, pvPermit, pvCalledAt, pvSent, pvResult, pvAnswer>>
    /\ UNCHANGED <<encVars, decVars, rvVars, prVars, rlVars, cmpVars, ccVars, ssVars, vlVars, wfVars, fcVars, avVars, inVars, fpVars, ueVars>>

CallIsPermitValid ==
    \E permit \in TimedPermits :
        LET reqs == isPermitValidStart(permit) IN
        /\ pvState # "pending"
        /\ Len(fetchLog) + Len(reqs) <= MaxRequests
        /\ fetchLog' = fetchLog \o reqs
        /\ pvState' = IF reqs = <<>> THEN "done" ELSE "pending"
        /\ pvPermit' = permit
        /\ pvCalledAt' = now
        /\ pvSent' = Len(reqs)
        /\ pvResult' = FALSE
        /\ pvAnswer' = NoValidateAnswer
        /\ UNCHANGED now
        /\ UNCHANGED <<decOp, decPermit, tasks, answers, reordered, batchState, batchResult, boolOut>>
        /\ UNCHANGED <<encVars, rvVars, prVars, rlVars, cmpVars, ccVars, ssVars, vlVars, wfVars, fcVars, avVars, inVars, fpVars, ueVars>>

GatewayValidateResponds ==
    \E r \in ValidateResponses :
        /\ pvState = "pending"
        /\ pvState' = "done"
        /\ pvResult' = isPermitValidSettle(r)
        /\ pvAnswer' = r
        /\ UNCHANGED <<now, pvPermit, pvCalledAt, pvSent>>
        /\ UNCHANGED <<encVars, decVars, rvVars, prVars, rlVars, cmpVars, ccVars, ssVars, vlVars, wfVars, fcVars, avVars, inVars, fpVars, ueVars>>

NextValidate ==
    \/ Tick
    \/ CallIsPermitValid
    \/ GatewayValidateResponds

----------------------------------------------------------------------------
(* core/decryption.ts: revokePermit *)

\* the gateway verifies this signature / public key pair; any other is
\* unknown to it
GatewayRecognises(permit) == permit.signature = "0xsig" /\ permit.publicKey = "0xpk"

\* what fetch() of POST {gatewayUrl}/permit/revoke can produce: the contract
\* is the HTTP status alone, so a gateway may answer a permit it does not
\* recognise, or one it has already revoked, with success or with a
\* non-success status
RevokeResponses(permit, revoked) ==
    { [kind |-> "networkError", ok |-> FALSE, status |-> "transport"],
      [kind |-> "http", ok |-> FALSE, status |-> "serverError"],
      [kind |-> "http", ok |-> TRUE, status |-> "ok"] }
    \cup (IF ~GatewayRecognises(permit)
          THEN {[kind |-> "http", ok |-> FALSE, status |-> "unknownPermit"]} ELSE {})
    \cup (IF permit \in revoked
          THEN {[kind |-> "http", ok |-> FALSE, status |-> "alreadyRevoked"]} ELSE {})

\* the rest of revokePermit() once fetch has settled with response r: the
\* Error thrown for a non-success status is caught and wrapped again
revokePermitSettle(r) ==
    IF r.kind = "networkError" THEN "rejected"
    ELSE IF ~r.ok THEN "rejected"
    ELSE "resolved"

InitRv ==
    /\ rvState = "idle"
    /\ rvPermit = NoPermit
    /\ rvStatus = "none"
    /\ gwRevoked = {}

CallRevokePermit ==
    \E permit \in Permits :
        /\ rvState # "pending"
        /\ Len(fetchLog) < MaxRequests
        /\ fetchLog' = Append(fetchLog, PermitRequest("/permit/revoke", permit))
        /\ rvState' = "pending"
        /\ rvPermit' = permit
        /\ rvStatus' = "none"
        /\ UNCHANGED gwRevoked
        /\ UNCHANGED <<decOp, decPermit, tasks, answers, reordered, batchState, batchResult, boolOut>>
        /\ UNCHANGED <<encVars, pvVars, prVars, rlVars, cmpVars, ccVars, ssVars, vlVars, wfVars, fcVars, avVars, inVars, fpVars, ueVars>>

GatewayRevokeResponds ==
    \E r \in RevokeResponses(rvPermit, gwRevoked) :
        /\ rvState = "pending"
        /\ rvState' = revokePermitSettle(r)
        /\ rvStatus' = r.status
        /\ gwRevoked' = IF r.ok /\ GatewayRecognises(rvPermit)
                        THEN gwRevoked \cup {rvPermit} ELSE gwRevoked
        /\ UNCHANGED rvPermit
        /\ UNCHANGED <<encVars, decVars, pvVars, prVars, rlVars, cmpVars, ccVars, ssVars, vlVars, wfVars, fcVars, avVars, inVars, fpVars, ueVars>>

NextRevoke ==
    \/ CallRevokePermit
    \/ GatewayRevokeResponds

----------------------------------------------------------------------------
(* core/decryption.ts requestDecryptionPermit, called through               *)
(* adapters/react/index.ts useDecrypt.requestPermit                         *)

Contracts == {"0xC1", "0xC2"}

Users == {"0xU1", "0xU2"}

Pairs == Contracts \X Users

\* client.instance.getPublicKey()
PublicKey == "0xpk"

NoOutcome == [state |-> "none", permit |-> NoPermit, error |-> "none"]

\* how provider.getSigner() can settle: a signer, or an Error of the provider
GetSignerAnswers == {"signer", "NoSigner"}

\* how signer.signTypedData() can settle: the signature, the Error ethers
\* raises when the account declines the prompt, or another Error
SignAnswers == {"0xsig", "UserRejected", "SignerError"}

\* requestDecryptionPermit resolving with a permit without signature when the
\* signature request fails
requestDecryptionPermit_Partial(answer) ==
    IF answer \in {"UserRejected", "SignerError", "NoSigner"}
    THEN [state |-> "resolved",
          permit |-> [signature |-> Undefined, publicKey |-> PublicKey],
          error |-> "none"]
    ELSE [state |-> "resolved",
          permit |-> [signature |-> answer, publicKey |-> PublicKey],
          error |-> "none"]

\* how requestDecryptionPermit settles once getSigner / signTypedData has
\* answered: a rejection of either await propagates unchanged
requestDecryptionPermit(answer) ==
    IF answer \in {"UserRejected", "SignerError", "NoSigner"}
    THEN [state |-> "rejected", permit |-> NoPermit, error |-> answer]
    ELSE [state |-> "resolved",
          permit |-> [signature |-> answer, publicKey |-> PublicKey],
          error |-> "none"]

InitPr ==
    /\ prPc = "idle"
    /\ prPair = <<"0xC1", "0xU1">>
    /\ prSigner = "none"
    /\ prOutcome = NoOutcome
    /\ isRequestingPermit = FALSE
    /\ hookError = "none"
    /\ pairState = [p \in Pairs |-> "Unrequested"]

\* requestPermit(options) of a hook whose client is null throws before the
\* try block
CallRequestPermitNoClient ==
    \E pair \in Pairs :
        /\ prPc \in {"idle", "done"}
        /\ prPc' = "done"
        /\ prPair' = pair
        /\ prSigner' = "none"
        /\ prOutcome' = [state |-> "rejected", permit |-> NoPermit,
                         error |-> "FHEVM client not initialized"]
        /\ UNCHANGED <<isRequestingPermit, hookError, pairState>>
        /\ UNCHANGED <<encVars, decVars, pvVars, rvVars, rlVars, cmpVars, ccVars, ssVars, vlVars, wfVars, fcVars, avVars, inVars, fpVars, ueVars>>

\* requestPermit(options) up to the await of provider.getSigner()
CallRequestPermit ==
    \E pair \in Pairs :
        /\ prPc \in {"idle", "done"}
        /\ prPc' = "getSigner"
        /\ prPair' = pair
        /\ prSigner' = "none"
        /\ prOutcome' = NoOutcome
        /\ isRequestingPermit' = TRUE
        /\ hookError' = "none"
        /\ pairState' = [pairState EXCEPT ![pair] = "Pending"]
        /\ UNCHANGED <<encVars, decVars, pvVars, rvVars, rlVars, cmpVars, ccVars, ssVars, vlVars, wfVars, fcVars, avVars, inVars, fpVars, ueVars>>

\* the promise of requestDecryptionPermit settles with outcome o: the catch
\* and finally blocks of the hook run.  Rejections of an ethers provider or
\* signer are Error instances, which the catch block stores and rethrows
\* unchanged
Settle(answer, o) ==
    /\ prPc' = "done"
    /\ prSigner' = answer
    /\ prOutcome' = o
    /\ hookError' = IF o.state = "rejected" THEN o.error ELSE hookError
    /\ isRequestingPermit' = FALSE
    /\ pairState' = [pairState EXCEPT ![prPair] =
                        IF o.state = "resolved" THEN "Granted" ELSE "Unrequested"]
    /\ UNCHANGED prPair

ProviderGetSigner ==
    \E answer \in GetSignerAnswers :
        /\ prPc = "getSigner"
        /\ IF answer = "signer"
           THEN /\ prPc' = "signTypedData"
                /\ UNCHANGED <<prPair, prSigner, prOutcome, isRequestingPermit,
                               hookError, pairState>>
           ELSE Settle(answer, requestDecryptionPermit(answer))
        /\ UNCHANGED <<encVars, decVars, pvVars, rvVars, rlVars, cmpVars, ccVars, ssVars, vlVars, wfVars, fcVars, avVars, inVars, fpVars, ueVars>>

SignerSignTypedData ==
    \E answer \in SignAnswers :
        /\ prPc = "signTypedData"
        /\ Settle(answer, requestDecryptionPermit(answer))
        /\ UNCHANGED <<encVars, decVars, pvVars, rvVars, rlVars, cmpVars, ccVars, ssVars, vlVars, wfVars, fcVars, avVars, inVars, fpVars, ueVars>>

NextRequest ==
    \/ CallRequestPermitNoClient
    \/ CallRequestPermit
    \/ ProviderGetSigner
    \/ SignerSignTypedData

----------------------------------------------------------------------------
(* adapters/react/index.ts: RateLimiter *)

\* isAllowed() with a limit that also counts the request made exactly
\* windowMs ago
isAllowed_Inclusive(reqs, t, max, window) ==
    LET kept == SelectSeq(reqs, LAMBDA time : t - time <= window) IN
    IF Len(kept) < max
    THEN [requests |-> Append(kept, t), allowed |-> TRUE]
    ELSE [requests |-> kept, allowed |-> FALSE]

\* isAllowed() at time t: prune, then accept and record, or reject
isAllowed(reqs, t, max, window) ==
    LET kept == SelectSeq(reqs, LAMBDA time : t - time < window) IN
    IF Len(kept) < max
    THEN [requests |-> Append(kept, t), allowed |-> TRUE]
    ELSE [requests |-> kept, allowed |-> FALSE]

\* the callers that share one RateLimiter
Identifiers == {"alice", "bob"}

NoCheck == [id |-> "none", at |-> 0, before |-> <<>>, result |-> "none"]

InitRl ==
    /\ rlMade = FALSE
    /\ maxRequests = 1
    /\ windowMs = 1
    /\ requests = <<>>
    /\ accepted = <<>>
    /\ callers = <<>>
    /\ rlCheck = NoCheck

NewRateLimiter ==
    \E max \in 1..MaxM, window \in 1..MaxW :
        /\ ~rlMade
        /\ rlMade' = TRUE
        /\ maxRequests' = max
        /\ windowMs' = window
        /\ requests' = <<>>
        /\ UNCHANGED <<accepted, callers, rlCheck>>
        /\ UNCHANGED <<encVars, decVars, pvVars, rvVars, prVars, cmpVars, ccVars, ssVars, vlVars, wfVars, fcVars, avVars, inVars, fpVars, ueVars>>

\* isAllowed() accepting while maxRequests timestamps remain
IsAllowed_OneMore ==
    \E id \in Identifiers :
    LET r == isAllowed(requests, now, maxRequests + 1, windowMs) IN
    /\ rlMade
    /\ requests' = r.requests
    /\ accepted' = IF r.allowed THEN Append(accepted, now) ELSE accepted
    /\ callers' = LET kept == SubSeq(callers, (Len(callers) - Len(r.requests)) + 1 + (IF r.allowed THEN 1 ELSE 0), Len(callers))
                   IN IF r.allowed THEN Append(kept, id) ELSE kept
    /\ rlCheck' = [id |-> id, at |-> now, before |-> accepted,
                   result |-> IF r.allowed THEN "accepted" ELSE "rejected"]
    /\ UNCHANGED <<rlMade, maxRequests, windowMs>>
    /\ UNCHANGED <<encVars, decVars, pvVars, rvVars, prVars, cmpVars, ccVars, ssVars, vlVars, wfVars, fcVars, avVars, inVars, fpVars, ueVars>>

IsAllowed ==
    \E id \in Identifiers :
    LET r == isAllowed(requests, now, maxRequests, windowMs) IN
    /\ rlMade
    /\ requests' = r.requests
    /\ accepted' = IF r.allowed THEN Append(accepted, now) ELSE accepted
    /\ callers' = LET kept == SubSeq(callers, (Len(callers) - Len(r.requests)) + 1 + (IF r.allowed THEN 1 ELSE 0), Len(callers))
                   IN IF r.allowed THEN Append(kept, id) ELSE kept
    /\ rlCheck' = [id |-> id, at |-> now, before |-> accepted,
                   result |-> IF r.allowed THEN "accepted" ELSE "rejected"]
    /\ UNCHANGED <<rlMade, maxRequests, windowMs>>
    /\ UNCHANGED <<encVars, decVars, pvVars, rvVars, prVars, cmpVars, ccVars, ssVars, vlVars, wfVars, fcVars, avVars, inVars, fpVars, ueVars>>

Reset ==
    /\ rlMade
    /\ requests' = <<>>
    /\ accepted' = <<>>
    /\ callers' = <<>>
    /\ rlCheck' = NoCheck
    /\ UNCHANGED <<rlMade, maxRequests, windowMs>>
    /\ UNCHANGED <<encVars, decVars, pvVars, rvVars, prVars, cmpVars, ccVars, ssVars, vlVars, wfVars, fcVars, avVars, inVars, fpVars, ueVars>>

NextRate ==
    \/ NewRateLimiter
    \/ Tick
    \/ IsAllowed
    \/ Reset

----------------------------------------------------------------------------
(* adapters/react/index.ts: secureCompare *)

\* UTF-16 code units of the sample strings: "A", "a", "b"
CharCodes == {65, 97, 98}

SampleStrings == UNION { [1..n -> CharCodes] : n \in 0..MaxLen }

RECURSIVE BitXor(_, _)
BitXor(x, y) ==
    IF x = 0 /\ y = 0 THEN 0
    ELSE (((x % 2) + (y % 2)) % 2) + 2 * BitXor(x \div 2, y \div 2)

RECURSIVE BitOr(_, _)
BitOr(x, y) ==
    IF x = 0 /\ y = 0 THEN 0
    ELSE (IF (x % 2) = 1 \/ (y % 2) = 1 THEN 1 ELSE 0) + 2 * BitOr(x \div 2, y \div 2)

RECURSIVE CompareLoop(_, _, _, _, _)
\* the for loop from index i (0-based) up to, not including, limit
CompareLoop(a, b, i, limit, result) ==
    IF i < limit
    THEN CompareLoop(a, b, i + 1, limit, BitOr(result, BitXor(a[i + 1], b[i + 1])))
    ELSE result

Max0(n) == IF n < 0 THEN 0 ELSE n

\* secureCompare whose loop stops one character early
secureCompare_SkipLast(a, b) ==
    IF Len(a) # Len(b) THEN [result |-> FALSE, steps |-> 0]
    ELSE [result |-> CompareLoop(a, b, 0, Max0(Len(a) - 1), 0) = 0,
          steps |-> Max0(Len(a) - 1)]

\* secureCompare(a, b): its result and the number of loop iterations it ran
secureCompare(a, b) ==
    IF Len(a) # Len(b) THEN [result |-> FALSE, steps |-> 0]
    ELSE [result |-> CompareLoop(a, b, 0, Len(a), 0) = 0, steps |-> Len(a)]

NoCompare == [called |-> FALSE, result |-> FALSE, steps |-> 0]

InitCmp ==
    /\ cmpA = <<>>
    /\ cmpB = <<>>
    /\ cmpOut = NoCompare

CallSecureCompare ==
    \E a \in SampleStrings, b \in SampleStrings :
        LET r == secureCompare(a, b) IN
        /\ ~cmpOut.called
        /\ cmpA' = a
        /\ cmpB' = b
        /\ cmpOut' = [called |-> TRUE, result |-> r.result, steps |-> r.steps]
        /\ UNCHANGED <<encVars, decVars, pvVars, rvVars, prVars, rlVars, ccVars, ssVars, vlVars, wfVars, fcVars, avVars, inVars, fpVars, ueVars>>

NextCmp == CallSecureCompare


----------------------------------------------------------------------------
(* core/client.ts: the network registry and createFhevmClient *)

\* the registry as the module exports it
Registry ==
    [sepolia |-> [chainId |-> 11155111, rpcUrl |-> "https://rpc.sepolia.org",
                  gatewayUrl |-> "https://gateway.zama.ai", aclAddress |-> "0x..."],
     localhost |-> [chainId |-> 31337, rpcUrl |-> "http://localhost:8545",
                    gatewayUrl |-> "http://localhost:8080", aclAddress |-> "0x..."]]

\* a NetworkConfig object built by a caller
CallerNetwork ==
    [chainId |-> 9000, rpcUrl |-> "http://devnet:8545",
     gatewayUrl |-> "http://devnet:8080", aclAddress |-> "0xdevnetAcl"]

\* config.network: a registered name, a name the registry lacks, or the
\* caller's object
NetworkArgs == {"sepolia", "localhost", "mainnet", "object"}

\* the configurations a caller may pass; an absent option is Undefined
ClientConfigs ==
    [network : NetworkArgs,
     gatewayUrl : {Undefined, "https://gateway.override"},
     aclAddress : {Undefined, "0xoverrideAcl"},
     provider : {"privateKey", "injected", "default"}]

NoClientConfig ==
    [network |-> "sepolia", gatewayUrl |-> Undefined, aclAddress |-> Undefined,
     provider |-> "default"]

NoClient == [network |-> CallerNetwork, address |-> Undefined, publicKey |-> Undefined]

NoKeyAnswer == [kind |-> "none", ok |-> FALSE, publicKey |-> Undefined]

\* what fetch() of GET {gatewayUrl}/publicKey can produce
PublicKeyResponses ==
    { [kind |-> "networkError", ok |-> FALSE, publicKey |-> Undefined],
      [kind |-> "http", ok |-> FALSE, publicKey |-> Undefined],
      [kind |-> "http", ok |-> TRUE, publicKey |-> "0xnetworkKey"] }

\* the object networkConfig refers to: NETWORKS[name] or config.network itself
networkConfig(config, registry, custom) ==
    IF config.network = "object" THEN custom ELSE registry[config.network]

Known(config) == config.network = "object" \/ config.network \in DOMAIN Registry

\* the two override assignments: they write through networkConfig into the
\* object it refers to
Override(config, registry, custom) ==
    LET target == networkConfig(config, registry, custom)
        g == IF config.gatewayUrl # Undefined
             THEN [target EXCEPT !.gatewayUrl = config.gatewayUrl] ELSE target
        a == IF config.aclAddress # Undefined
             THEN [g EXCEPT !.aclAddress = config.aclAddress] ELSE g
    IN IF config.network = "object"
       THEN [registry |-> registry, custom |-> a]
       ELSE [registry |-> [registry EXCEPT ![config.network] = a], custom |-> custom]

\* fetchPublicKey() once fetch has settled with response r: "ok", or the
\* cause wrapped into the Error it throws
fetchPublicKey(r) ==
    IF r.kind = "networkError" THEN "transport"
    ELSE IF ~r.ok THEN "status"
    ELSE "ok"

InitClient ==
    /\ NETWORKS = Registry
    /\ customNetwork = CallerNetwork
    /\ fhevmInitialized = FALSE
    /\ ccPc = "idle"
    /\ ccConfig = NoClientConfig
    /\ ccFetched = Undefined
    /\ ccAnswer = NoKeyAnswer
    /\ ccClient = NoClient
    /\ ccCause = "none"

\* createFhevmClient() from the return of initializeFhevm() to its next await
AfterInitialize(config) ==
    IF ~Known(config)
    THEN /\ ccPc' = "rejected"
         /\ ccCause' = "unknownNetwork"
         /\ ccFetched' = Undefined
         /\ UNCHANGED <<NETWORKS, customNetwork>>
    ELSE LET o == Override(config, NETWORKS, customNetwork) IN
         /\ NETWORKS' = o.registry
         /\ customNetwork' = o.custom
         /\ ccCause' = "none"
         /\ IF config.provider = "injected"
            THEN ccPc' = "getSigner" /\ ccFetched' = Undefined
            ELSE /\ ccPc' = "fetchPublicKey"
                 /\ ccFetched' = networkConfig(config, o.registry, o.custom).gatewayUrl

CallCreateFhevmClient ==
    \E config \in ClientConfigs :
        /\ ccPc \in {"idle", "resolved", "rejected"}
        /\ ccConfig' = config
        /\ ccAnswer' = NoKeyAnswer
        /\ ccClient' = NoClient
        /\ IF fhevmInitialized
           THEN AfterInitialize(config)
           ELSE /\ ccPc' = "initFhevm"
                /\ ccCause' = "none"
                /\ ccFetched' = Undefined
                /\ UNCHANGED <<NETWORKS, customNetwork>>
        /\ UNCHANGED fhevmInitialized
        /\ UNCHANGED <<encVars, decVars, pvVars, rvVars, prVars, rlVars, cmpVars, ssVars, vlVars, wfVars, fcVars, avVars, inVars, fpVars, ueVars>>

\* initFhevm() of fhevmjs resolves
InitFhevmResolves ==
    /\ ccPc = "initFhevm"
    /\ fhevmInitialized' = TRUE
    /\ AfterInitialize(ccConfig)
    /\ UNCHANGED <<ccConfig, ccAnswer, ccClient>>
    /\ UNCHANGED <<encVars, decVars, pvVars, rvVars, prVars, rlVars, cmpVars, ssVars, vlVars, wfVars, fcVars, avVars, inVars, fpVars, ueVars>>

\* initFhevm() of fhevmjs rejects
InitFhevmRejects ==
    /\ ccPc = "initFhevm"
    /\ ccPc' = "rejected"
    /\ ccCause' = "initFhevm"
    /\ UNCHANGED <<NETWORKS, customNetwork, fhevmInitialized, ccConfig, ccFetched,
                   ccAnswer, ccClient>>
    /\ UNCHANGED <<encVars, decVars, pvVars, rvVars, prVars, rlVars, cmpVars, ssVars, vlVars, wfVars, fcVars, avVars, inVars, fpVars, ueVars>>

\* provider.getSigner() and signer.getAddress() of the injected provider
ClientGetSigner ==
    \E ok \in BOOLEAN :
        /\ ccPc = "getSigner"
        /\ IF ok
           THEN /\ ccPc' = "fetchPublicKey"
                /\ ccFetched' = networkConfig(ccConfig, NETWORKS, customNetwork).gatewayUrl
                /\ ccClient' = [ccClient EXCEPT !.address = "0xuser"]
                /\ UNCHANGED ccCause
           ELSE /\ ccPc' = "rejected"
                /\ ccCause' = "getSigner"
                /\ UNCHANGED <<ccFetched, ccClient>>
        /\ UNCHANGED <<NETWORKS, customNetwork, fhevmInitialized, ccConfig, ccAnswer>>
        /\ UNCHANGED <<encVars, decVars, pvVars, rvVars, prVars, rlVars, cmpVars, ssVars, vlVars, wfVars, fcVars, avVars, inVars, fpVars, ueVars>>

\* the gateway (or the transport) answers GET /publicKey
GatewayPublicKeyResponds ==
    \E r \in PublicKeyResponses :
        /\ ccPc = "fetchPublicKey"
        /\ ccAnswer' = r
        /\ IF fetchPublicKey(r) = "ok"
           THEN /\ ccPc' = "createInstance"
                /\ ccClient' = [ccClient EXCEPT !.publicKey = r.publicKey]
                /\ UNCHANGED ccCause
           ELSE /\ ccPc' = "rejected"
                /\ ccCause' = fetchPublicKey(r)
                /\ UNCHANGED ccClient
        /\ UNCHANGED <<NETWORKS, customNetwork, fhevmInitialized, ccConfig, ccFetched>>
        /\ UNCHANGED <<encVars, decVars, pvVars, rvVars, prVars, rlVars, cmpVars, ssVars, vlVars, wfVars, fcVars, avVars, inVars, fpVars, ueVars>>

\* createInstance() of fhevmjs settles; the client's network is the object
\* networkConfig refers to
CreateInstanceSettles ==
    \E ok \in BOOLEAN :
        /\ ccPc = "createInstance"
        /\ IF ok
           THEN /\ ccPc' = "resolved"
                /\ ccClient' = [ccClient EXCEPT
                                  !.network = networkConfig(ccConfig, NETWORKS, customNetwork)]
                /\ UNCHANGED ccCause
           ELSE /\ ccPc' = "rejected"
                /\ ccCause' = "createInstance"
                /\ UNCHANGED ccClient
        /\ UNCHANGED <<NETWORKS, customNetwork, fhevmInitialized, ccConfig, ccFetched, ccAnswer>>
        /\ UNCHANGED <<encVars, decVars, pvVars, rvVars, prVars, rlVars, cmpVars, ssVars, vlVars, wfVars, fcVars, avVars, inVars, fpVars, ueVars>>

NextClient ==
    \/ CallCreateFhevmClient
    \/ InitFhevmResolves
    \/ InitFhevmRejects
    \/ ClientGetSigner
    \/ GatewayPublicKeyResponds
    \/ CreateInstanceSettles


----------------------------------------------------------------------------
(* adapters/react/index.ts: SecureStorage *)

\* the SecureStorage objects of the page
Instances == {1, 2}

\* prefixes passed to the constructor: the default 'fhevm_', 'fhevm_app_'
\* and 'app_'
Prefixes ==
    { <<"f", "h", "e", "v", "m", "_">>,
      <<"f", "h", "e", "v", "m", "_", "a", "p", "p", "_">>,
      <<"a", "p", "p", "_">> }

\* keys passed to set, get and remove: 'k' and 'app_k'
Keys == { <<"k">>, <<"a", "p", "p", "_", "k">> }

\* keys other code of the page writes with localStorage.setItem: 'theme'
\* and 'fhevm_raw'
RawKeys ==
    { <<"t", "h", "e", "m", "e">>,
      <<"f", "h", "e", "v", "m", "_", "r", "a", "w">> }

StoreKeys == { p \o k : p \in Prefixes, k \in Keys } \cup RawKeys

\* String.prototype.startsWith
startsWith(s, p) == Len(s) >= Len(p) /\ SubSeq(s, 1, Len(p)) = p

\* the values callers store
StoredValues == {42}

\* JSON.stringify of a stored value
JSONstringify(v) == toString(v)

\* JSON.parse of an item
JSONparse(item) == ParseDigits(item, 0)

\* no item under a key; by names the SecureStorage instance whose set()
\* wrote an item, 0 for an item written by other code
NoItem == [present |-> FALSE, item |-> <<>>, by |-> 0]

NoPrefix == <<"?">>

NoCall == [op |-> "none", by |-> 0, result |-> 0,
           before |-> [k \in StoreKeys |-> NoItem]]

\* get() returns null for a missing item
Null == 0 - 1

\* clear() that empties the whole store
clear_All(store, prefix) == [k \in StoreKeys |-> NoItem]

\* clear(): every key of the store that starts with the prefix is removed
clear(store, prefix) ==
    [k \in StoreKeys |-> IF store[k].present /\ startsWith(k, prefix) THEN NoItem ELSE store[k]]

InitStorage ==
    /\ hasLocalStorage \in BOOLEAN
    /\ localStorage = [k \in StoreKeys |-> NoItem]
    /\ ssPrefix = [i \in Instances |-> NoPrefix]
    /\ ssLast = NoCall

NewSecureStorage ==
    \E i \in Instances, prefix \in Prefixes :
        /\ ssPrefix[i] = NoPrefix
        /\ ssPrefix' = [ssPrefix EXCEPT ![i] = prefix]
        /\ ssLast' = NoCall
        /\ UNCHANGED <<hasLocalStorage, localStorage>>
        /\ UNCHANGED <<encVars, decVars, pvVars, rvVars, prVars, rlVars, cmpVars, ccVars, vlVars, wfVars, fcVars, avVars, inVars, fpVars, ueVars>>

SecureStorageSet ==
    \E i \in Instances, key \in Keys, value \in StoredValues :
        LET fullKey == ssPrefix[i] \o key
            serialized == JSONstringify(value) IN
        /\ ssPrefix[i] # NoPrefix
        /\ localStorage' = IF hasLocalStorage
                           THEN [localStorage EXCEPT
                                   ![fullKey] = [present |-> TRUE, item |-> serialized, by |-> i]]
                           ELSE localStorage
        /\ ssLast' = [NoCall EXCEPT !.op = "set", !.by = i]
        /\ UNCHANGED <<hasLocalStorage, ssPrefix>>
        /\ UNCHANGED <<encVars, decVars, pvVars, rvVars, prVars, rlVars, cmpVars, ccVars, vlVars, wfVars, fcVars, avVars, inVars, fpVars, ueVars>>

SecureStorageGet ==
    \E i \in Instances, key \in Keys :
        LET fullKey == ssPrefix[i] \o key IN
        /\ ssPrefix[i] # NoPrefix
        /\ ssLast' = [NoCall EXCEPT
                        !.op = "get", !.by = i,
                        !.result = IF hasLocalStorage /\ localStorage[fullKey].present
                                      /\ localStorage[fullKey].item # <<>>
                                   THEN JSONparse(localStorage[fullKey].item)
                                   ELSE Null]
        /\ UNCHANGED <<hasLocalStorage, localStorage, ssPrefix>>
        /\ UNCHANGED <<encVars, decVars, pvVars, rvVars, prVars, rlVars, cmpVars, ccVars, vlVars, wfVars, fcVars, avVars, inVars, fpVars, ueVars>>

SecureStorageRemove ==
    \E i \in Instances, key \in Keys :
        LET fullKey == ssPrefix[i] \o key IN
        /\ ssPrefix[i] # NoPrefix
        /\ localStorage' = IF hasLocalStorage
                           THEN [localStorage EXCEPT ![fullKey] = NoItem]
                           ELSE localStorage
        /\ ssLast' = [NoCall EXCEPT !.op = "remove", !.by = i]
        /\ UNCHANGED <<hasLocalStorage, ssPrefix>>
        /\ UNCHANGED <<encVars, decVars, pvVars, rvVars, prVars, rlVars, cmpVars, ccVars, vlVars, wfVars, fcVars, avVars, inVars, fpVars, ueVars>>

SecureStorageClear ==
    \E i \in Instances :
        /\ ssPrefix[i] # NoPrefix
        /\ localStorage' = IF hasLocalStorage
                           THEN clear(localStorage, ssPrefix[i])
                           ELSE localStorage
        /\ ssLast' = [op |-> "clear", by |-> i, result |-> 0, before |-> localStorage]
        /\ UNCHANGED <<hasLocalStorage, ssPrefix>>
        /\ UNCHANGED <<encVars, decVars, pvVars, rvVars, prVars, rlVars, cmpVars, ccVars, vlVars, wfVars, fcVars, avVars, inVars, fpVars, ueVars>>

\* other code of the page writes one of its own keys
LocalStorageSetItem ==
    \E key \in RawKeys, value \in StoredValues :
        /\ hasLocalStorage
        /\ localStorage' = [localStorage EXCEPT
                              ![key] = [present |-> TRUE, item |-> JSONstringify(value), by |-> 0]]
        /\ ssLast' = NoCall
        /\ UNCHANGED <<hasLocalStorage, ssPrefix>>
        /\ UNCHANGED <<encVars, decVars, pvVars, rvVars, prVars, rlVars, cmpVars, ccVars, vlVars, wfVars, fcVars, avVars, inVars, fpVars, ueVars>>

NextStorage ==
    \/ NewSecureStorage
    \/ SecureStorageSet
    \/ SecureStorageGet
    \/ SecureStorageRemove
    \/ SecureStorageClear
    \/ LocalStorageSetItem


----------------------------------------------------------------------------
(* The validation layer: utils/validation.ts of the SDK, whose checks      *)
(* return normally or throw, lib/utils/validation.ts of the showcase,      *)
(* whose checks return a ValidationResult, and isValidPermit of the React  *)
(* adapter                                                                 *)

\* how a check ended: it returned (valid, with the error of a
\* ValidationResult) or it threw an Error with that message
Returned(valid, error) == [threw |-> FALSE, valid |-> valid, error |-> error]

Thrown(error) == [threw |-> TRUE, valid |-> FALSE, error |-> error]

\* the type names passed to the numeric checks; uint128 is not a key of
\* FHE_RANGES
TypeNames == {"bool", "address", "uint8", "uint16", "uint32", "uint64", "uint128"}

\* FHE_RANGES[type].max for the integer types
RangeMax(type) ==
    IF type = "uint8" THEN Lit255("bigint")
    ELSE IF type = "uint16" THEN Lit65535("bigint")
    ELSE IF type = "uint32" THEN LitU32Max("bigint")
    ELSE LitU64Max("bigint")

\* BigInt(value) of a number, bigint or boolean; BigInt(NaN) throws
ToBigInt(value) ==
    IF value.kind = "boolean"
    THEN MkInt("bigint", FALSE, IF value.bool THEN <<0, 0, 0, 0, 1>> ELSE Zero5)
    ELSE MkInt("bigint", value.neg, value.mag)

\* Number(value) of a bigint: rounding to a double keeps its order against
\* the literals 0, 255, 65535 and 4294967295
ToNumber(value) ==
    IF value.kind = "bigint" THEN MkInt("number", value.neg, value.mag) ELSE value

\* SDK validateFheValue(value, type)
validateFheValue(value, type) ==
    IF type = "bool"
    THEN IF /\ value.kind # "boolean"
            /\ ~(value.kind = "number" /\ ~value.nan /\ value.mag = Zero5)
            /\ ~(value = MkInt("number", FALSE, <<0, 0, 0, 0, 1>>))
         THEN Thrown("Boolean value must be true, false, 0, or 1")
         ELSE Returned(TRUE, "")
    ELSE IF type = "address"
    THEN IF value.kind # "string" THEN Thrown("Address value must be a string")
         ELSE IF ~isValidAddress(value.str) THEN Thrown("Invalid Ethereum address format")
         ELSE Returned(TRUE, "")
    ELSE IF value.nan THEN Thrown("RangeError")
    ELSE IF type \notin {"uint8", "uint16", "uint32", "uint64"}
    THEN Thrown("Unknown FHE type")
    ELSE IF \/ JsLt(ToBigInt(value), Lit0("bigint"))
            \/ JsGt(ToBigInt(value), RangeMax(type))
    THEN Thrown("Value out of range")
    ELSE Returned(TRUE, "")

\* a handle as a caller passes it: undefined, or a string
HandleArgs == {Absent, Text(<<"7">>), Text(<<"o", "k">>)}

\* SDK validateEncryptedHandle(handle)
validateEncryptedHandle(handle) ==
    IF ~handle.defined THEN Thrown("Encrypted handle is required")
    ELSE IF BigIntThrows(handle) THEN Thrown("Invalid encrypted handle format")
    ELSE Returned(TRUE, "")

\* an argument that should be an array: something else, or an array of
\* handles
ListArgs ==
    { [isArray |-> a, items |-> s] :
        a \in BOOLEAN, s \in UNION { [1..n -> HandleArgs] : n \in 0..MaxBatch } }

NoList == [isArray |-> FALSE, items |-> <<>>]

\* SDK validateHandleBatch(handles)
validateHandleBatch(handles) ==
    IF ~handles.isArray THEN Thrown("Handles must be an array")
    ELSE IF Len(handles.items) = 0 THEN Thrown("Handle array cannot be empty")
    ELSE IF \E i \in 1..Len(handles.items) : validateEncryptedHandle(handles.items[i]).threw
    THEN Thrown("Invalid handle at index")
    ELSE Returned(TRUE, "")

\* showcase validateNumericValue(value, type)
validateNumericValue(value, type) ==
    LET num == ToNumber(value) IN
    IF num.nan /\ type # "uint64"
    THEN Returned(FALSE, "Value must be a finite number")
    ELSE IF type \in {"uint8", "uint16", "uint32"}
    THEN IF JsLt(num, Lit0("number")) \/ JsGt(num, ToNumber(RangeMax(type)))
         THEN Returned(FALSE, "Value must be an integer in range")
         ELSE Returned(TRUE, "")
    ELSE IF type = "uint64"
    THEN IF value.kind = "bigint"
         THEN IF JsLt(value, Lit0("bigint")) \/ JsGt(value, LitU64Max("bigint"))
              THEN Returned(FALSE, "Value must be between 0 and 2^64-1")
              ELSE Returned(TRUE, "")
         ELSE IF JsLt(num, Lit0("number"))
              THEN Returned(FALSE, "Value must be positive")
              ELSE Returned(TRUE, "")
    ELSE Returned(FALSE, "Invalid type for numeric value")

\* showcase validateAddress(address)
validateAddress(address) ==
    IF address.kind # "string" THEN Returned(FALSE, "Address must be a string")
    ELSE IF ~isValidAddress(address.str)
    THEN Returned(FALSE, "Invalid Ethereum address format")
    ELSE Returned(TRUE, "")

\* showcase validateOperands(operands); an operand that is not a string is
\* undefined
validateOperands(operands) ==
    IF ~operands.isArray THEN Returned(FALSE, "Operands must be an array")
    ELSE IF Len(operands.items) < 2
    THEN Returned(FALSE, "At least two operands are required")
    ELSE IF \E i \in 1..Len(operands.items) : ~operands.items[i].defined
    THEN Returned(FALSE, "Operand must be a string")
    ELSE Returned(TRUE, "")

\* showcase validatePermit(permit) at time t: a missing expiresAt, and the
\* falsy timestamp 0, skip the expiry check
validatePermit(permit, t) ==
    IF permit.signature = Undefined \/ permit.signature = ""
    THEN Returned(FALSE, "Permit must contain a signature")
    ELSE IF permit.publicKey = Undefined \/ permit.publicKey = ""
    THEN Returned(FALSE, "Permit must contain a public key")
    ELSE IF permit.expiresAt # NoExpiry /\ permit.expiresAt # 0 /\ permit.expiresAt < t
    THEN Returned(FALSE, "Permit has expired")
    ELSE Returned(TRUE, "")

\* React adapter isValidPermit(permit)
isValidPermit(permit) ==
    /\ permit.signature # Undefined
    /\ permit.publicKey # Undefined
    /\ permit.signature # ""
    /\ permit.publicKey # ""

\* the fields a request body may carry and a route may require
BodyFields == {"value", "type"}

\* a request body: not an object, or an object with some of the fields
Bodies == { [isObject |-> o, fields |-> f] : o \in BOOLEAN, f \in SUBSET BodyFields }

NoBody == [isObject |-> FALSE, fields |-> {}]

\* showcase validateRequestBody(body, requiredFields)
validateRequestBody(body, requiredFields) ==
    IF ~body.isObject THEN Returned(FALSE, "Request body must be an object")
    ELSE IF \E field \in requiredFields : field \notin body.fields
    THEN Returned(FALSE, "Missing required field")
    ELSE Returned(TRUE, "")

NoArgs ==
    [value |-> NoValue, type |-> "none", permit |-> NoTimedPermit, list |-> NoList,
     body |-> NoBody, required |-> {}]

InitChecks ==
    /\ vlFn = "none"
    /\ vlArgs = NoArgs
    /\ vlAt = 0
    /\ vlOutcome = Returned(FALSE, "")

\* one call of a check
Check(fn, args, outcome) ==
    /\ vlFn = "none"
    /\ vlFn' = fn
    /\ vlArgs' = args
    /\ vlAt' = now
    /\ vlOutcome' = outcome
    /\ UNCHANGED <<encVars, decVars, pvVars, rvVars, prVars, rlVars, cmpVars, ccVars, ssVars, wfVars, fcVars, avVars, inVars, fpVars, ueVars>>

CallValidateFheValue ==
    \E type \in TypeNames :
        \E value \in Numbers \cup BigInts \cup Booleans
                     \cup (IF type = "address" THEN Strings ELSE {}) :
            Check("validateFheValue", [NoArgs EXCEPT !.value = value, !.type = type],
                  validateFheValue(value, type))

CallValidateDecryptionPermit ==
    \E permit \in TimedPermits :
        Check("validateDecryptionPermit", [NoArgs EXCEPT !.permit = permit],
              IF validateDecryptionPermit(permit) = "ok" THEN Returned(TRUE, "")
              ELSE Thrown(validateDecryptionPermit(permit)))

CallValidateEncryptedHandle ==
    \E handle \in HandleArgs :
        Check("validateEncryptedHandle",
              [NoArgs EXCEPT !.list = [isArray |-> FALSE, items |-> <<handle>>]],
              validateEncryptedHandle(handle))

CallValidateHandleBatch ==
    \E handles \in ListArgs :
        Check("validateHandleBatch", [NoArgs EXCEPT !.list = handles],
              validateHandleBatch(handles))

CallValidateNumericValue ==
    \E value \in Numbers \cup BigInts, type \in TypeNames :
        Check("validateNumericValue", [NoArgs EXCEPT !.value = value, !.type = type],
              validateNumericValue(value, type))

CallValidateAddress ==
    \E address \in Strings \cup Numbers :
        Check("validateAddress", [NoArgs EXCEPT !.value = address], validateAddress(address))

CallValidateOperands ==
    \E operands \in ListArgs :
        Check("validateOperands", [NoArgs EXCEPT !.list = operands],
              validateOperands(operands))

CallValidatePermit ==
    \E permit \in TimedPermits :
        Check("validatePermit", [NoArgs EXCEPT !.permit = permit], validatePermit(permit, now))

CallIsValidPermit ==
    \E permit \in TimedPermits :
        Check("isValidPermit", [NoArgs EXCEPT !.permit = permit],
              Returned(isValidPermit(permit), ""))

CallValidateRequestBody ==
    \E body \in Bodies, requiredFields \in SUBSET BodyFields :
        Check("validateRequestBody",
              [NoArgs EXCEPT !.body = body, !.required = requiredFields],
              validateRequestBody(body, requiredFields))

NextChecks ==
    \/ Tick
    \/ CallValidateFheValue
    \/ CallValidateDecryptionPermit
    \/ CallValidateEncryptedHandle
    \/ CallValidateHandleBatch
    \/ CallValidateNumericValue
    \/ CallValidateAddress
    \/ CallValidateOperands
    \/ CallValidatePermit
    \/ CallIsValidPermit
    \/ CallValidateRequestBody


----------------------------------------------------------------------------
(* The encrypt, submit, decrypt workflow: encrypt() of core/encryption.ts,  *)
(* a contract that stores the ciphertext under a handle, and decrypt() of   *)
(* core/decryption.ts against the gateway of that chain                     *)

\* the plain numbers of the samples that fit 16 bits, as integers
WorkflowValues == { v \in Numbers : ~v.nan /\ ~v.neg /\ SubSeq(v.mag, 1, 4) = <<0, 0, 0, 0>> }

ToInt(value) == value.mag[5]

\* nothing stored under a handle
Empty == 0 - 1

\* what input.encrypt() of the instance resolves with: some bytes and a
\* signature; plain is the value that was added to the input
Ciphertexts(value) ==
    { [data |-> d, signature |-> "0xproof", plain |-> ToInt(value)] : d \in {<<7>>, <<7, 9>>} }

NoInput == [data |-> <<>>, signature |-> "", plain |-> Empty]

NoTask == [handle |-> 0, state |-> "idle", value |-> 0, cause |-> "none"]

\* what fetch() of POST {gatewayUrl}/decrypt produces on this chain: a
\* transport failure, a server failure, or the answer of a gateway that reads
\* the handle of the request, verifies the permit and returns the plaintext
\* stored under that handle as a decimal string
WorkflowResponses(request, store) ==
    LET h == ParseDigits(request.handle, 0) IN
    { [kind |-> "networkError", ok |-> FALSE, value |-> Absent],
      [kind |-> "http", ok |-> FALSE, value |-> Absent],
      IF /\ request.signature = "0xsig" /\ request.publicKey = "0xpk"
         /\ h \in Handles /\ store[h] # Empty
      THEN [kind |-> "gateway", ok |-> TRUE, value |-> Text(toString(store[h]))]
      ELSE [kind |-> "gateway", ok |-> FALSE, value |-> Absent] }

InitWorkflow ==
    /\ wfPc = "start"
    /\ wfValue = NoValue
    /\ wfInput = NoInput
    /\ wfStore = [h \in Handles |-> Empty]
    /\ wfHandle = 0
    /\ wfPermit = NoPermit
    /\ wfTask = NoTask
    /\ wfAnswer = NoAnswer

\* encrypt(client, value) up to the await of input.encrypt()
WorkflowEncrypt ==
    \E value \in WorkflowValues :
        /\ wfPc = "start"
        /\ wfValue' = value
        /\ wfPc' = IF encrypt(value).threw THEN "failed" ELSE "encrypting"
        /\ UNCHANGED <<wfInput, wfStore, wfHandle, wfPermit, wfTask, wfAnswer>>
        /\ UNCHANGED <<encVars, decVars, pvVars, rvVars, prVars, rlVars, cmpVars, ccVars, ssVars, vlVars, fcVars, avVars, inVars, fpVars, ueVars>>

\* input.encrypt() resolves; encrypt() returns its result unchanged
WorkflowInstanceEncrypts ==
    \E c \in Ciphertexts(wfValue) :
        /\ wfPc = "encrypting"
        /\ wfInput' = c
        /\ wfPc' = "encrypted"
        /\ UNCHANGED <<wfValue, wfStore, wfHandle, wfPermit, wfTask, wfAnswer>>
        /\ UNCHANGED <<encVars, decVars, pvVars, rvVars, prVars, rlVars, cmpVars, ccVars, ssVars, vlVars, fcVars, avVars, inVars, fpVars, ueVars>>

\* contract.submit(encrypted.data, encrypted.signature): the contract stores
\* the ciphertext under a handle of its choice
WorkflowSubmit ==
    \E h \in Handles :
        /\ wfPc = "encrypted"
        /\ wfStore' = [wfStore EXCEPT ![h] = wfInput.plain]
        /\ wfHandle' = h
        /\ wfPc' = "submitted"
        /\ UNCHANGED <<wfValue, wfInput, wfPermit, wfTask, wfAnswer>>
        /\ UNCHANGED <<encVars, decVars, pvVars, rvVars, prVars, rlVars, cmpVars, ccVars, ssVars, vlVars, fcVars, avVars, inVars, fpVars, ueVars>>

\* decrypt(client, handle, permit) up to its await of fetch
WorkflowDecrypt ==
    \E permit \in Permits :
        /\ wfPc = "submitted"
        /\ wfPermit' = permit
        /\ wfTask' = decryptStart(wfHandle, permit).task
        /\ wfPc' = "decrypting"
        /\ UNCHANGED <<wfValue, wfInput, wfStore, wfHandle, wfAnswer>>
        /\ UNCHANGED <<encVars, decVars, pvVars, rvVars, prVars, rlVars, cmpVars, ccVars, ssVars, vlVars, fcVars, avVars, inVars, fpVars, ueVars>>

\* the gateway (or the transport) answers; the rest of decrypt() runs
WorkflowGatewayResponds ==
    \E r \in WorkflowResponses(decryptStart(wfHandle, wfPermit).request[1], wfStore) :
        /\ wfPc = "decrypting"
        /\ wfAnswer' = r
        /\ wfTask' = decryptSettle(wfTask, r)
        /\ wfPc' = "done"
        /\ UNCHANGED <<wfValue, wfInput, wfStore, wfHandle, wfPermit>>
        /\ UNCHANGED <<encVars, decVars, pvVars, rvVars, prVars, rlVars, cmpVars, ccVars, ssVars, vlVars, fcVars, avVars, inVars, fpVars, ueVars>>

NextWorkflow ==
    \/ WorkflowEncrypt
    \/ WorkflowInstanceEncrypts
    \/ WorkflowSubmit
    \/ WorkflowDecrypt
    \/ WorkflowGatewayResponds


----------------------------------------------------------------------------
(* examples: class FHEClient (client-side FHE operations) *)

\* requests one FHEClient sends at most
MaxCalls == 3

NullKey == "null"

\* what fetch() can produce: a rejection, or a response with its ok flag and,
\* for /api/keys, the data.keys.publicKey of its body
FetchResponses ==
    {[kind |-> "networkError", ok |-> FALSE, publicKey |-> NullKey]}
        \cup [kind : {"http"}, ok : BOOLEAN, publicKey : {"", "pk"}]

NoFheCall == [op |-> "none", ready |-> FALSE, fetched |-> FALSE, state |-> "none", error |-> "none"]

InitFheClient ==
    /\ publicKey = NullKey
    /\ fcLog = <<>>
    /\ fcCall = NoFheCall

\* initialize() up to its fetch
FheInitialize ==
    /\ fcCall.state # "pending"
    /\ Len(fcLog) < MaxCalls
    /\ fcLog' = Append(fcLog, "/api/keys")
    /\ fcCall' = [op |-> "initialize", ready |-> publicKey # NullKey, fetched |-> TRUE,
                  state |-> "pending", error |-> "none"]
    /\ UNCHANGED publicKey
    /\ UNCHANGED <<encVars, decVars, pvVars, rvVars, prVars, rlVars, cmpVars, ccVars, ssVars, vlVars, wfVars, avVars, inVars, fpVars, ueVars>>

\* encrypt(value, type) up to its fetch
FheEncrypt ==
    /\ fcCall.state # "pending"
    /\ Len(fcLog) < MaxCalls
    /\ IF publicKey = NullKey \/ publicKey = ""
       THEN /\ fcCall' = [op |-> "encrypt", ready |-> publicKey # NullKey, fetched |-> FALSE,
                          state |-> "rejected", error |-> "FHE client not initialized"]
            /\ UNCHANGED fcLog
       ELSE /\ fcLog' = Append(fcLog, "/api/fhe/encrypt")
            /\ fcCall' = [op |-> "encrypt", ready |-> TRUE, fetched |-> TRUE,
                          state |-> "pending", error |-> "none"]
    /\ UNCHANGED publicKey
    /\ UNCHANGED <<encVars, decVars, pvVars, rvVars, prVars, rlVars, cmpVars, ccVars, ssVars, vlVars, wfVars, avVars, inVars, fpVars, ueVars>>

\* decrypt(encryptedHandle, permit, contractAddress) up to its fetch
FheDecrypt ==
    /\ fcCall.state # "pending"
    /\ Len(fcLog) < MaxCalls
    /\ fcLog' = Append(fcLog, "/api/fhe/decrypt")
    /\ fcCall' = [op |-> "decrypt", ready |-> publicKey # NullKey, fetched |-> TRUE,
                  state |-> "pending", error |-> "none"]
    /\ UNCHANGED publicKey
    /\ UNCHANGED <<encVars, decVars, pvVars, rvVars, prVars, rlVars, cmpVars, ccVars, ssVars, vlVars, wfVars, avVars, inVars, fpVars, ueVars>>

\* the message of the error thrown when response.ok is false
NotOkMessage(op) ==
    CASE op = "initialize" -> "Failed to initialize FHE client"
      [] op = "encrypt" -> "Encryption failed"
      [] OTHER -> "Decryption failed"

\* the pending call from its fetch to its end
FheFetchSettles ==
    \E r \in FetchResponses :
        /\ fcCall.state = "pending"
        /\ fcCall' = [fcCall EXCEPT
                        !.state = IF r.kind = "http" /\ r.ok THEN "fulfilled" ELSE "rejected",
                        !.error = IF r.kind = "networkError" THEN "fetch failed"
                                  ELSE IF ~r.ok THEN NotOkMessage(fcCall.op)
                                  ELSE "none"]
        /\ publicKey' = IF fcCall.op = "initialize" /\ r.kind = "http" /\ r.ok
                        THEN r.publicKey ELSE publicKey
        /\ UNCHANGED fcLog
        /\ UNCHANGED <<encVars, decVars, pvVars, rvVars, prVars, rlVars, cmpVars, ccVars, ssVars, vlVars, wfVars, avVars, inVars, fpVars, ueVars>>

NextFheClient ==
    \/ FheInitialize
    \/ FheEncrypt
    \/ FheDecrypt
    \/ FheFetchSettles


----------------------------------------------------------------------------
(* examples: contract AnonymousViolationHandler *)

\* violations reported at most
MaxViolations == 2

\* msg.sender: the deployer and one other account
Senders == {"deployer", "user"}

\* _violationType samples around the valid range 1..5
ViolationTypes == {0, 1, 5, 6}

\* _location samples
Locations == {"", "Main St"}

\* _newAmount samples, in ether
NewAmounts == {0, 75}

\* _violationId samples
ViolationIds == 0..(MaxViolations + 1)

NoViolation == [isPaid |-> FALSE, isProcessed |-> FALSE, reporter |-> "0x0"]

\* payments[id].timestamp > 0 is submitted
NoPayment == [submitted |-> FALSE, verified |-> FALSE]

NoTx == [fn |-> "none", paused |-> FALSE, reverted |-> FALSE]

InitContract ==
    /\ owner = "deployer"
    /\ violationCounter = 0
    /\ violations = [id \in 1..MaxViolations |-> NoViolation]
    /\ payments = [id \in 1..MaxViolations |-> NoPayment]
    /\ reporterViolations = [a \in Senders |-> <<>>]
    /\ violationBaseFines = [t \in 1..5 |-> CASE t = 1 -> 150 [] t = 2 -> 50 [] t = 3 -> 200
                                              [] t = 4 -> 100 [] OTHER -> 120]
    /\ paused = FALSE
    /\ lastTx = NoTx

\* a transaction that reverts leaves the contract as it was
Revert(fn) ==
    /\ lastTx' = [fn |-> fn, paused |-> paused, reverted |-> TRUE]
    /\ UNCHANGED <<owner, violationCounter, violations, payments, reporterViolations,
                   violationBaseFines, paused>>

validViolation(id) == id > 0 /\ id <= violationCounter

reportViolation ==
    \E sender \in Senders, type \in ViolationTypes, location \in Locations :
        /\ violationCounter < MaxViolations
        /\ IF ~(type >= 1 /\ type <= 5) \/ location = ""
           THEN Revert("reportViolation")
           ELSE /\ violationCounter' = violationCounter + 1
                /\ violations' = [violations EXCEPT ![violationCounter + 1] =
                                     [isPaid |-> FALSE, isProcessed |-> FALSE,
                                      reporter |-> sender]]
                /\ reporterViolations' = [reporterViolations EXCEPT ![sender] =
                                             Append(@, violationCounter + 1)]
                /\ lastTx' = [fn |-> "reportViolation", paused |-> paused, reverted |-> FALSE]
                /\ UNCHANGED <<owner, payments, violationBaseFines, paused>>
        /\ UNCHANGED <<encVars, decVars, pvVars, rvVars, prVars, rlVars, cmpVars, ccVars, ssVars, vlVars, wfVars, fcVars, inVars, fpVars, ueVars>>

submitPayment ==
    \E sender \in Senders, id \in ViolationIds :
        /\ IF ~validViolation(id)
           THEN Revert("submitPayment")
           ELSE IF violations[id].isPaid \/ violations[id].isProcessed
           THEN Revert("submitPayment")
           ELSE /\ payments' = [payments EXCEPT ![id] = [submitted |-> TRUE, verified |-> FALSE]]
                /\ lastTx' = [fn |-> "submitPayment", paused |-> paused, reverted |-> FALSE]
                /\ UNCHANGED <<owner, violationCounter, violations, reporterViolations,
                               violationBaseFines, paused>>
        /\ UNCHANGED <<encVars, decVars, pvVars, rvVars, prVars, rlVars, cmpVars, ccVars, ssVars, vlVars, wfVars, fcVars, inVars, fpVars, ueVars>>

processPayment ==
    \E sender \in Senders, id \in ViolationIds :
        /\ IF sender # owner \/ ~validViolation(id)
           THEN Revert("processPayment")
           ELSE IF violations[id].isProcessed
           THEN Revert("processPayment")
           ELSE LET paymentConfirmed == payments[id].submitted IN
                /\ violations' = [violations EXCEPT ![id].isPaid = paymentConfirmed,
                                                    ![id].isProcessed = TRUE]
                /\ payments' = [payments EXCEPT ![id].verified = paymentConfirmed]
                /\ lastTx' = [fn |-> "processPayment", paused |-> paused, reverted |-> FALSE]
                /\ UNCHANGED <<owner, violationCounter, reporterViolations,
                               violationBaseFines, paused>>
        /\ UNCHANGED <<encVars, decVars, pvVars, rvVars, prVars, rlVars, cmpVars, ccVars, ssVars, vlVars, wfVars, fcVars, inVars, fpVars, ueVars>>

updateViolationFine ==
    \E sender \in Senders, type \in ViolationTypes, newAmount \in NewAmounts :
        /\ IF sender # owner \/ ~(type >= 1 /\ type <= 5) \/ ~(newAmount > 0)
           THEN Revert("updateViolationFine")
           ELSE /\ violationBaseFines' = [violationBaseFines EXCEPT ![type] = newAmount]
                /\ lastTx' = [fn |-> "updateViolationFine", paused |-> paused, reverted |-> FALSE]
                /\ UNCHANGED <<owner, violationCounter, violations, payments,
                               reporterViolations, paused>>
        /\ UNCHANGED <<encVars, decVars, pvVars, rvVars, prVars, rlVars, cmpVars, ccVars, ssVars, vlVars, wfVars, fcVars, inVars, fpVars, ueVars>>

togglePause ==
    \E sender \in Senders :
        /\ IF sender # owner
           THEN Revert("togglePause")
           ELSE /\ paused' = ~paused
                /\ lastTx' = [fn |-> "togglePause", paused |-> paused, reverted |-> FALSE]
                /\ UNCHANGED <<owner, violationCounter, violations, payments,
                               reporterViolations, violationBaseFines>>
        /\ UNCHANGED <<encVars, decVars, pvVars, rvVars, prVars, rlVars, cmpVars, ccVars, ssVars, vlVars, wfVars, fcVars, inVars, fpVars, ueVars>>

NextContract ==
    \/ reportViolation
    \/ submitPayment
    \/ processPayment
    \/ updateViolationFine
    \/ togglePause


----------------------------------------------------------------------------
(* core/client.ts: overlapping initializeFhevm() calls *)

\* initializeFhevm() calls made at most
MaxInit == 4

InitInitialize ==
    initCalls = <<>>

\* initializeFhevm() up to its await: "returned" when the flag was set,
\* "awaiting" when it called initFhevm()
CallInitializeFhevm ==
    /\ Len(initCalls) < MaxInit
    /\ initCalls' = Append(initCalls, IF fhevmInitialized THEN "returned" ELSE "awaiting")
    /\ UNCHANGED ccVars
    /\ UNCHANGED <<encVars, decVars, pvVars, rvVars, prVars, rlVars, cmpVars, ssVars, vlVars, wfVars, fcVars, avVars, fpVars, ueVars>>

\* initFhevm() of one call settles; the call sets the flag when it resolved
InitFhevmSettles ==
    \E i \in 1..Len(initCalls), ok \in BOOLEAN :
        /\ initCalls[i] = "awaiting"
        /\ initCalls' = [initCalls EXCEPT ![i] = IF ok THEN "resolved" ELSE "rejected"]
        /\ fhevmInitialized' = (ok \/ fhevmInitialized)
        /\ UNCHANGED <<NETWORKS, customNetwork, ccPc, ccConfig, ccFetched, ccAnswer,
                       ccClient, ccCause>>
        /\ UNCHANGED <<encVars, decVars, pvVars, rvVars, prVars, rlVars, cmpVars, ssVars, vlVars, wfVars, fcVars, avVars, fpVars, ueVars>>

NextInitialize ==
    \/ CallInitializeFhevm
    \/ InitFhevmSettles


----------------------------------------------------------------------------
(* adapters/react/index.ts: FhevmProvider *)

\* runs of the provider's effect at most
MaxEffects == 3

\* the values the network/provider/gatewayUrl/aclAddress props take, as a whole
ProviderProps == {"sepolia", "localhost"}

NoProps == "none"

\* no FhevmClient
NullClient == "null"

\* the context value's isReady: isClientReady(client)
isReady == ctxClient # NullClient

InitProvider ==
    /\ props = NoProps
    /\ rendered = FALSE
    /\ effects = <<>>
    /\ ctxClient = NullClient
    /\ isInitializing = TRUE
    /\ ctxError = FALSE

\* the effect's cleanup: the `mounted` of the run that is current
Cleanup(runs) ==
    [i \in 1..Len(runs) |-> [runs[i] EXCEPT !.mounted = FALSE]]

\* the effect body up to `await createFhevmClient(config)`
RunEffect(p) ==
    /\ effects' = Append(Cleanup(effects), [config |-> p, mounted |-> TRUE, state |-> "pending"])
    /\ isInitializing' = TRUE
    /\ ctxError' = FALSE
    /\ UNCHANGED ctxClient

\* first render of <FhevmProvider>
ProviderMount ==
    \E p \in ProviderProps :
        /\ ~rendered
        /\ effects = <<>>
        /\ rendered' = TRUE
        /\ props' = p
        /\ RunEffect(p)
        /\ UNCHANGED <<encVars, decVars, pvVars, rvVars, prVars, rlVars, cmpVars, ccVars, ssVars, vlVars, wfVars, fcVars, avVars, inVars, ueVars>>

\* a render with changed props: cleanup of the previous run, then the effect again
ProviderPropsChange ==
    \E p \in ProviderProps :
        /\ rendered
        /\ p # props
        /\ Len(effects) < MaxEffects
        /\ props' = p
        /\ RunEffect(p)
        /\ UNCHANGED rendered
        /\ UNCHANGED <<encVars, decVars, pvVars, rvVars, prVars, rlVars, cmpVars, ccVars, ssVars, vlVars, wfVars, fcVars, avVars, inVars, ueVars>>

\* the provider is removed from the tree
ProviderUnmount ==
    /\ rendered
    /\ rendered' = FALSE
    /\ effects' = Cleanup(effects)
    /\ UNCHANGED <<props, ctxClient, isInitializing, ctxError>>
    /\ UNCHANGED <<encVars, decVars, pvVars, rvVars, prVars, rlVars, cmpVars, ccVars, ssVars, vlVars, wfVars, fcVars, avVars, inVars, ueVars>>

\* createFhevmClient(config) of one run settles: try / catch / finally of init()
CreateFhevmClientSettles ==
    \E i \in 1..Len(effects), ok \in BOOLEAN :
        /\ effects[i].state = "pending"
        /\ effects' = [effects EXCEPT ![i].state = IF ok THEN "resolved" ELSE "rejected"]
        /\ IF effects[i].mounted
           THEN /\ ctxClient' = IF ok THEN effects[i].config ELSE ctxClient
                /\ ctxError' = IF ok THEN ctxError ELSE TRUE
                /\ isInitializing' = FALSE
           ELSE UNCHANGED <<ctxClient, ctxError, isInitializing>>
        /\ UNCHANGED <<props, rendered>>
        /\ UNCHANGED <<encVars, decVars, pvVars, rvVars, prVars, rlVars, cmpVars, ccVars, ssVars, vlVars, wfVars, fcVars, avVars, inVars, ueVars>>

NextProvider ==
    \/ ProviderMount
    \/ ProviderPropsChange
    \/ ProviderUnmount
    \/ CreateFhevmClientSettles


----------------------------------------------------------------------------
(* adapters/react/index.ts: useEncrypt, calls that overlap *)

\* calls made through one useEncrypt hook at most
MaxHookCalls == 3

InitUseEncrypt ==
    /\ isEncrypting = FALSE
    /\ encryptError = FALSE
    /\ hookCalls = <<>>

\* one of the hook's encrypt functions, up to its await
UseEncryptCall ==
    \E hasClient \in BOOLEAN :
        /\ Len(hookCalls) < MaxHookCalls
        /\ IF ~hasClient
           THEN /\ hookCalls' = Append(hookCalls, "notInitialized")
                /\ UNCHANGED <<isEncrypting, encryptError>>
           ELSE /\ hookCalls' = Append(hookCalls, "pending")
                /\ isEncrypting' = TRUE
                /\ encryptError' = FALSE
        /\ UNCHANGED <<encVars, decVars, pvVars, rvVars, prVars, rlVars, cmpVars, ccVars, ssVars, vlVars, wfVars, fcVars, avVars, inVars, fpVars>>

\* the awaited encryption of one call settles: catch and finally
UseEncryptSettles ==
    \E i \in 1..Len(hookCalls), ok \in BOOLEAN :
        /\ hookCalls[i] = "pending"
        /\ hookCalls' = [hookCalls EXCEPT ![i] = IF ok THEN "fulfilled" ELSE "rejected"]
        /\ encryptError' = IF ok THEN encryptError ELSE TRUE
        /\ isEncrypting' = FALSE
        /\ UNCHANGED <<encVars, decVars, pvVars, rvVars, prVars, rlVars, cmpVars, ccVars, ssVars, vlVars, wfVars, fcVars, avVars, inVars, fpVars>>

NextUseEncrypt ==
    \/ UseEncryptCall
    \/ UseEncryptSettles

----------------------------------------------------------------------------
(* Specifications *)

Init ==
    /\ InitEnc /\ InitDec /\ InitPv /\ InitRv /\ InitPr /\ InitRl /\ InitCmp
    /\ InitClient /\ InitStorage /\ InitChecks /\ InitWorkflow /\ InitFheClient /\ InitContract /\ InitInitialize /\ InitProvider /\ InitUseEncrypt

SpecEnc == Init /\ [][NextEnc]_vars

SpecDec == Init /\ [][NextDec]_vars

SpecValidate == Init /\ [][NextValidate]_vars

SpecRevoke == Init /\ [][NextRevoke]_vars

SpecRequest == Init /\ [][NextRequest]_vars

SpecRate == Init /\ [][NextRate]_vars

SpecCmp == Init /\ [][NextCmp]_vars

SpecClient == Init /\ [][NextClient]_vars

SpecStorage == Init /\ [][NextStorage]_vars

SpecChecks == Init /\ [][NextChecks]_vars

SpecWorkflow == Init /\ [][NextWorkflow]_vars

SpecFheClient == Init /\ [][NextFheClient]_vars

SpecContract == Init /\ [][NextContract]_vars

SpecInitialize == Init /\ [][NextInitialize]_vars

SpecProvider == Init /\ [][NextProvider]_vars

SpecUseEncrypt == Init /\ [][NextUseEncrypt]_vars

----------------------------------------------------------------------------
(* Properties of the encryption dispatch (SpecEnc) *)

U8Max  == <<0, 0, 0, 0, 255>>
U16Max == <<0, 0, 0, 0, 65535>>
U32Max == <<0, 0, 0, 65535, 65535>>
U64Max == <<0, 65535, 65535, 65535, 65535>>

\* 0 <= v <= max for an integer v
Within(v, max) == ~v.nan /\ ~v.neg /\ ~MagLt(max, v.mag)

MaxOf(fn) ==
    CASE fn = "encryptUint8" -> U8Max
      [] fn = "encryptUint16" -> U16Max
      [] fn = "encryptUint32" -> U32Max
      [] fn = "encryptUint64" -> U64Max

UintFns == {"encryptUint8", "encryptUint16", "encryptUint32", "encryptUint64"}

\* C1: for every integer v, encryptUint8/16/32/64 is rejected by its own
\* validation exactly when v lies outside 0..255 / 0..65535 / 0..2^32-1 /
\* 0..2^64-1, and resolves only for v inside; a call with v inside fails only
\* if the cryptographic instance itself fails.
C1_UintRange ==
    (encFn \in UintFns /\ ~encValue.nan) =>
        /\ (encState = "rejected") <=> ~Within(encValue, MaxOf(encFn))
        /\ (encState = "resolved") => Within(encValue, MaxOf(encFn))

C1_Witness ==
    /\ encFn = "encryptUint32"
    /\ encValue.mag = U32Max
    /\ encState = "resolved"

\* C2: auto-detect encrypt of a plain number takes the 8-bit path for 0..255,
\* the 16-bit path for 256..65535, the 32-bit path for 65536..4294967295, and
\* rejects every other number without ever taking the 64-bit path.
C2_NarrowestPath ==
    (encFn = "encrypt" /\ encValue.kind = "number") =>
        IF Within(encValue, U8Max)
        THEN encPath = "encryptUint8" /\ instCalls[2] = "add8" /\ encState # "rejected"
        ELSE IF Within(encValue, U16Max)
        THEN encPath = "encryptUint16" /\ instCalls[2] = "add16" /\ encState # "rejected"
        ELSE IF Within(encValue, U32Max)
        THEN encPath = "encryptUint32" /\ instCalls[2] = "add32" /\ encState # "rejected"
        ELSE encState = "rejected" /\ instCalls = <<>> /\ encPath # "encryptUint64"

C2_Witness ==
    /\ encFn = "encrypt"
    /\ encValue = Succ(LitU32Max("number"))
    /\ encState = "rejected"

\* the value fails the range check of the typed function fn (0..max for the
\* integer types, "0x" followed by 40 more characters for an address); NaN
\* compares false with both bounds and fails neither
Violates(fn, v) ==
    IF fn = "encryptAddress"
    THEN Len(v.str) # 42 \/ SubSeq(v.str, 1, 2) # <<"0", "x">>
    ELSE ~v.nan /\ (v.neg \/ MagLt(MaxOf(fn), v.mag))

----------------------------------------------------------------------------
(* Properties of decrypt and decryptBatch (SpecDec) *)

RequestPermit(req) == [signature |-> req.signature, publicKey |-> req.publicKey]

\* C4: decrypt given a permit whose signature or publicKey is empty or
\* missing rejects without issuing a gateway request, and every /decrypt
\* request carries a permit that passes validateDecryptionPermit.
C4_InvalidPermitNoRequest ==
    /\ (decOp = "decrypt" /\ validateDecryptionPermit(decPermit) # "ok")
           => (tasks[1].state = "rejected" /\ fetchLog = <<>>)
    /\ \A k \in 1..Len(fetchLog) :
           fetchLog[k].endpoint = "/decrypt"
               => validateDecryptionPermit(RequestPermit(fetchLog[k])) = "ok"

\* C5: decryptBatch rejects as soon as one of its decryptions has failed;
\* when all N have succeeded it has resolved to an array of length N whose
\* i-th element is the plaintext of the i-th input handle, in whatever order
\* the responses arrived; it resolves in no other case.
C5_BatchAllOrNothing ==
    decOp = "decryptBatch" =>
        /\ (\E i \in 1..Len(tasks) : tasks[i].state = "rejected")
               => batchState = "rejected"
        /\ (\A i \in 1..Len(tasks) : tasks[i].state = "fulfilled")
               => /\ batchState = "resolved"
                  /\ Len(batchResult) = Len(tasks)
                  /\ \A i \in 1..Len(tasks) : batchResult[i] = Plain(tasks[i].handle)
        /\ (batchState = "resolved")
               => \A i \in 1..Len(tasks) : tasks[i].state = "fulfilled"

C5_Witness ==
    /\ decOp = "decryptBatch"
    /\ batchState = "resolved"
    /\ Len(batchResult) = MaxBatch
    /\ reordered
    /\ batchResult[1] # batchResult[2]

----------------------------------------------------------------------------
(* Properties of the permit authority (SpecValidate, SpecRevoke, SpecRequest) *)

Expired(permit, t) == permit.expiresAt # NoExpiry /\ permit.expiresAt < t

\* C3: for a permit whose expiresAt is in the past, isPermitValid returns
\* false and issues no request to the gateway.
C3_ExpiredShortCircuit ==
    (pvState # "idle" /\ Expired(pvPermit, pvCalledAt))
        => (pvState = "done" /\ pvResult = FALSE /\ pvSent = 0)

\* C10: revokePermit never fails because the gateway does not recognise the
\* permit or has already revoked it: with such an answer it completes
\* without an error.
C10_RevokeIdempotent ==
    (rvStatus \in {"unknownPermit", "alreadyRevoked"}) => (rvState = "resolved")

\* C7: when the account declines the signature prompt, the permit request
\* fails with the UserRejected failure, yields no permit, and the
\* (contract, user) pair is back in Unrequested with the hook no longer
\* requesting.
C7_UserRejected ==
    (prPc = "done" /\ prSigner = "UserRejected") =>
        /\ prOutcome.state = "rejected"
        /\ prOutcome.error = "UserRejected"
        /\ prOutcome.permit = NoPermit
        /\ hookError = "UserRejected"
        /\ ~isRequestingPermit
        /\ pairState[prPair] = "Unrequested"

C7_Witness ==
    /\ prPc = "done"
    /\ prSigner = "UserRejected"
    /\ prOutcome.state = "rejected"
    /\ pairState[prPair] = "Unrequested"
    /\ \E p \in Pairs : pairState[p] = "Granted"

----------------------------------------------------------------------------
(* Properties of the security utilities (SpecRate, SpecCmp) *)

\* the accepted requests that lie less than windowMs before time t
InWindow(times, t) == {k \in 1..Len(times) : t - times[k] < windowMs}

C8_CompareIsEquality ==
    cmpOut.called =>
        (cmpOut.result <=>
            (Len(cmpA) = Len(cmpB) /\ \A i \in 1..Len(cmpA) : cmpA[i] = cmpB[i]))

C8_Witness ==
    /\ cmpOut.called
    /\ Len(cmpA) = MaxLen
    /\ Len(cmpB) = MaxLen
    /\ \A i \in 1..(MaxLen - 1) : cmpA[i] = cmpB[i]
    /\ cmpA[MaxLen] # cmpB[MaxLen]
    /\ ~cmpOut.result

----------------------------------------------------------------------------
(* C11: decrypt rejects, wrapping the cause, whenever the request fails in *)
(* transport or the gateway answers with a non-success status, and never   *)
(* resolves in those cases; when it resolves, the value is the integer     *)
(* whose decimal digits a successful response carried.                     *)

C11_DecryptFailureRejects ==
    \A i \in 1..Len(tasks) :
        tasks[i].state # "pending" =>
            /\ answers[i].kind = "networkError" =>
                   tasks[i].state = "rejected" /\ tasks[i].cause = "transport"
            /\ (answers[i].kind = "http" /\ ~answers[i].ok) =>
                   tasks[i].state = "rejected" /\ tasks[i].cause = "status"
            /\ tasks[i].state = "fulfilled" =>
                   /\ answers[i].kind = "http" /\ answers[i].ok
                   /\ answers[i].value.defined
                   /\ toString(tasks[i].value) = answers[i].value.str

C11_Witness ==
    /\ decOp = "decrypt"
    /\ answers[1].kind = "http" /\ ~answers[1].ok
    /\ tasks[1].state = "rejected"

----------------------------------------------------------------------------
(* C12: a transport failure during a gateway call (public-key fetch,       *)
(* decrypt, permit validation, permit revocation) is thrown again to the   *)
(* caller wrapped around its cause; no such operation resolves normally    *)
(* after its request failed.                                               *)

C12_TransportFailureRethrown ==
    /\ \A i \in 1..Len(tasks) :
           answers[i].kind = "networkError" =>
               tasks[i].state = "rejected" /\ tasks[i].cause = "transport"
    /\ ccAnswer.kind = "networkError" => ccPc = "rejected" /\ ccCause = "transport"
    /\ rvStatus = "transport" => rvState = "rejected"
    /\ pvAnswer.kind = "networkError" => pvState # "done"

----------------------------------------------------------------------------
(* C13: resolving a session's network never mutates a NetworkConfig: the   *)
(* registry entries and the caller's config object stay as they were after *)
(* a call with a gatewayUrl or aclAddress override, so a client created    *)
(* for a registered name without overrides gets the registry's original    *)
(* parameters.                                                             *)

C13_RegistryUnchanged ==
    /\ NETWORKS = Registry
    /\ customNetwork = CallerNetwork
    /\ (/\ ccPc = "resolved"
        /\ ccConfig.network \in DOMAIN Registry
        /\ ccConfig.gatewayUrl = Undefined
        /\ ccConfig.aclAddress = Undefined)
       => ccClient.network = Registry[ccConfig.network]

----------------------------------------------------------------------------
(* C14: SecureStorage.clear() and the entries of the underlying store *)

Cleared == ssLast.op = "clear"

\* C14 as stated: clear() removes every entry stored through the instance
\* and leaves unchanged every entry that was not stored through it, the
\* entries of another instance with a different prefix included
C14_ClearOnlyOwn ==
    Cleared =>
        \A k \in StoreKeys :
            /\ (ssLast.before[k].present /\ ssLast.before[k].by = ssLast.by)
                   => ~localStorage[k].present
            /\ (ssLast.before[k].present /\ ssLast.before[k].by # ssLast.by)
                   => localStorage[k] = ssLast.before[k]

\* C14: clear() removes every entry stored through the instance and leaves
\* unchanged every entry whose key does not start with the instance's
\* prefix; an entry whose key starts with it is removed whoever wrote it
C14_ClearByPrefix ==
    Cleared =>
        \A k \in StoreKeys :
            /\ (ssLast.before[k].present /\ ssLast.before[k].by = ssLast.by)
                   => ~localStorage[k].present
            /\ ~startsWith(k, ssPrefix[ssLast.by]) => localStorage[k] = ssLast.before[k]
            /\ startsWith(k, ssPrefix[ssLast.by]) => ~localStorage[k].present

C14_Witness ==
    /\ Cleared
    /\ \E k \in StoreKeys : ssLast.before[k].present /\ ssLast.before[k].by = ssLast.by
    /\ \E k \in StoreKeys :
           /\ ssLast.before[k].present /\ ssLast.before[k].by # ssLast.by
           /\ ~localStorage[k].present
    /\ \E k \in StoreKeys : localStorage[k].present

----------------------------------------------------------------------------
(* C15: encryptAddress, and auto-detect encrypt given a string, accept the *)
(* string only if it is 0x followed by exactly 40 hexadecimal digits;      *)
(* every other string is rejected before any cryptographic call.           *)

C15_AddressPattern ==
    (/\ encFn \in {"encryptAddress", "encrypt"}
     /\ encValue.kind = "string"
     /\ ~isValidAddress(encValue.str))
        => (encState = "rejected" /\ instCalls = <<>>)

----------------------------------------------------------------------------
(* C16: every check of the validation layer returns success or a failure   *)
(* reason as a value for every input; none of them throws.                 *)

C16_ChecksReturn ==
    vlFn # "none" => ~vlOutcome.threw

----------------------------------------------------------------------------
(* C17: the permit shape-and-expiry check reports a permit invalid         *)
(* whenever its expiresAt is an instant earlier than the current time,     *)
(* whatever its signature and publicKey are.                               *)

C17_ExpiredIsInvalid ==
    (/\ vlFn \in {"validatePermit", "isValidPermit"}
     /\ vlArgs.permit.expiresAt # NoExpiry
     /\ vlArgs.permit.expiresAt < vlAt)
        => (~vlOutcome.threw /\ ~vlOutcome.valid)

----------------------------------------------------------------------------
(* C18: secureCompare never exits early: a call runs as many comparison    *)
(* steps as any other call whose first argument has the same length,       *)
(* whatever the content or the length of the second argument and wherever  *)
(* the first differing character lies.                                     *)

C18_NoEarlyExit ==
    cmpOut.called =>
        \A a2 \in SampleStrings, b2 \in SampleStrings :
            Len(a2) = Len(cmpA) => secureCompare(a2, b2).steps = cmpOut.steps

----------------------------------------------------------------------------
(* C19: auto-detect encrypt given a boolean, true or false, takes the      *)
(* boolean path: it calls addBool on the instance and none of add8, add16, *)
(* add32, add64 and addAddress, and no numeric or string test rejects it.  *)

C19_BooleanPath ==
    (encFn = "encrypt" /\ encValue.kind = "boolean") =>
        /\ encPath = "encryptBool"
        /\ encState # "rejected"
        /\ \E i \in 1..Len(instCalls) : instCalls[i] = "addBool"
        /\ \A i \in 1..Len(instCalls) :
               instCalls[i] \notin {"add8", "add16", "add32", "add64", "addAddress"}

C19_Witness ==
    /\ encFn = "encrypt"
    /\ encValue.kind = "boolean" /\ ~encValue.bool
    /\ encState = "resolved"
    /\ instCalls = <<"createEncryptedInput", "addBool", "encrypt">>

----------------------------------------------------------------------------
(* C20: for every wide integer v the gateway returns for a handle,         *)
(* decryptBool resolves to true if v is not 0 and to false if v is 0.      *)

C20_DecryptBool ==
    (decOp = "decryptBool" /\ tasks[1].state = "fulfilled") =>
        /\ boolOut.state = "resolved"
        /\ tasks[1].value # 0 => boolOut.value = TRUE
        /\ tasks[1].value = 0 => boolOut.value = FALSE

C20_Witness ==
    /\ decOp = "decryptBool"
    /\ answers[1].kind = "http" /\ answers[1].value = Text(<<"0">>)
    /\ boolOut = [state |-> "resolved", value |-> FALSE]

----------------------------------------------------------------------------
(* C21: round trip.  When an eligible value has been encrypted and         *)
(* submitted and its handle is decrypted with a valid permit against a     *)
(* gateway that answers faithfully, encrypt has yielded non-empty data and *)
(* a non-empty signature, and decrypt resolves with the original plaintext *)
(* as a wide integer.                                                      *)

----------------------------------------------------------------------------
(* C22: decryptBatch over N handles issues exactly N decrypt requests, one *)
(* per handle and in their order, all of them before any response is       *)
(* awaited; a request whose response has not arrived stays in flight and   *)
(* can still be answered after the batch has rejected, and a promise       *)
(* settles only on the response to its own request.                        *)

C22_BatchRequests ==
    decOp = "decryptBatch" =>
        /\ Len(fetchLog) = Len(tasks)
        /\ \A i \in 1..Len(tasks) :
               /\ fetchLog[i] = DecryptRequest(tasks[i].handle, decPermit)
               /\ tasks[i].state = "pending" <=> answers[i] = NoAnswer
        /\ (\E i \in 1..Len(tasks) : tasks[i].state = "pending")
               => ENABLED GatewayDecryptResponds

C22_Witness ==
    /\ decOp = "decryptBatch"
    /\ Len(tasks) = 2
    /\ batchState = "rejected"
    /\ tasks[1].state = "rejected"
    /\ tasks[2].state = "fulfilled"
    /\ ~reordered

----------------------------------------------------------------------------
(* C23: with checks made at non-decreasing times and no reset in between,  *)
(* no more than maxRequests requests are accepted within any interval      *)
(* shorter than windowMs, and the recorded timestamps are the accepted     *)
(* ones less than windowMs older than the last check.                      *)

C23_AtMostMPerWindow ==
    /\ \A i \in 1..Len(accepted), j \in 1..Len(accepted) :
           (i <= j /\ accepted[j] - accepted[i] < windowMs) => (j - i) + 1 <= maxRequests
    /\ rlCheck.result # "none" =>
           requests = SelectSeq(accepted, LAMBDA time : rlCheck.at - time < windowMs)

C23_Witness ==
    /\ Len(accepted) > maxRequests
    /\ rlCheck.result = "rejected"
    /\ Len(requests) = maxRequests

----------------------------------------------------------------------------
(* C24: RateLimiter state is kept per identifier: a check made for one     *)
(* identifier is rejected only when that identifier itself has maxRequests *)
(* accepted requests less than windowMs old.                               *)

C24_PerIdentifier ==
    rlCheck.result = "rejected" =>
        Cardinality({k \in 1..Len(requests) : callers[k] = rlCheck.id}) >= maxRequests

----------------------------------------------------------------------------
(* C25: an encrypt or decrypt call made on an FHEClient whose initialize() *)
(* has not succeeded is rejected with the client-not-initialized error and *)
(* issues no network call.                                                 *)

C25_NotReadyFails ==
    (fcCall.op \in {"encrypt", "decrypt"} /\ ~fcCall.ready) =>
        /\ fcCall.state = "rejected"
        /\ fcCall.error = "FHE client not initialized"
        /\ ~fcCall.fetched

----------------------------------------------------------------------------
(* C26: while paused is true, reportViolation, submitPayment,              *)
(* processPayment and updateViolationFine revert.                          *)

C26_PausedHalts ==
    (/\ lastTx.paused
     /\ lastTx.fn \in {"reportViolation", "submitPayment", "processPayment", "updateViolationFine"})
        => lastTx.reverted

----------------------------------------------------------------------------
(* C27: initFhevm runs at most once whatever the number of initializeFhevm *)
(* calls: at most one call has a run of initFhevm in progress or           *)
(* succeeded, overlapping calls included.                                  *)

C27_InitFhevmOnce ==
    Cardinality({i \in 1..Len(initCalls) : initCalls[i] \in {"awaiting", "resolved"}}) <= 1

----------------------------------------------------------------------------
(* C28: once the initialization started for the current props has settled, *)
(* successfully or with an error, the context does not report isReady with *)
(* a client that was created for other props.                              *)

C28_NoStaleClient ==
    (/\ rendered
     /\ effects # <<>>
     /\ effects[Len(effects)].state # "pending")
        => ~(isReady /\ ctxClient # props)

----------------------------------------------------------------------------
(* C29: isEncrypting is true exactly when at least one encryption started  *)
(* through the hook has not settled, overlapping encryptions included.     *)

C29_FlagTracksPending ==
    isEncrypting <=> (\E i \in 1..Len(hookCalls) : hookCalls[i] = "pending")

----------------------------------------------------------------------------
(* utils/validation.ts: inferFheType, against the dispatch of encrypt *)

\* inferFheType(value): the type name returned, or "throws"
inferFheType(value) ==
    IF value.kind = "boolean" THEN "bool"
    ELSE IF value.kind = "string" THEN
        IF isValidAddress(value.str) THEN "address" ELSE "throws"
    ELSE IF value.nan THEN "throws"
    ELSE LET bigValue == ToBigInt(value) IN
        IF JsLt(bigValue, Lit0("bigint")) THEN "throws"
        ELSE IF JsLe(bigValue, RangeMax("uint8")) THEN "uint8"
        ELSE IF JsLe(bigValue, RangeMax("uint16")) THEN "uint16"
        ELSE IF JsLe(bigValue, RangeMax("uint32")) THEN "uint32"
        ELSE IF JsLe(bigValue, RangeMax("uint64")) THEN "uint64"
        ELSE "throws"

\* the encoding of the function encrypt dispatched to
EncodingOf(path) ==
    CASE path = "encryptBool" -> "bool"
      [] path = "encryptAddress" -> "address"
      [] path = "encryptUint8" -> "uint8"
      [] path = "encryptUint16" -> "uint16"
      [] path = "encryptUint32" -> "uint32"
      [] path = "encryptUint64" -> "uint64"
      [] OTHER -> "none"

(* C30: for every value for which auto-detect encrypt succeeds through the *)
(* path of an encoding, inferFheType returns that encoding.                *)

C30_InferenceAgrees ==
    (encFn = "encrypt" /\ encState = "resolved")
        => inferFheType(encValue) = EncodingOf(encPath)

====
